---- MODULE Spec2Model ----
(***************************************************************************)
(* Lead cleaning pipeline, response cache and cache-key derivation of the  *)
(* SMB lead automator.                                                     *)
(*                                                                         *)
(* The repository holds two implementations of the cleaning pipeline:      *)
(*   - LeadLib.DataProcessor (src/src/library/dataProcessor.js), the one   *)
(*     LeadLib.fetchLeads calls; its operators carry the source names      *)
(*     (cleanLeads, cleanName, ...);                                       *)
(*   - class DataProcessor (src/src/library/apolloApi.js); its operators   *)
(*     carry the underscore names of the source (_cleanName, ...) and its  *)
(*     entry point is DataProcessor_cleanLeads.                            *)
(*                                                                         *)
(* JavaScript strings are sequences of one-character strings, so that      *)
(* toLowerCase, trim and the regular expressions are computed.  A          *)
(* JavaScript value of unknown type is a record [t, s, n]: its type tag,   *)
(* its characters when it is a string, its number when it is a number.     *)
(* For a number n is the integer part (the number truncated toward zero)   *)
(* and s the decimal digits after the point, empty for an integer.         *)
(***************************************************************************)
EXTENDS Integers, Sequences, FiniteSets, TLC

VARIABLES
  rawLeads,   \* the batch handed to cleanLeads
  cleaned,    \* what the last cleanLeads call produced
  cache,      \* CacheService script cache: key -> entry
  listCache,  \* the entry of the script cache under 'leads_full_list'
  now,        \* clock, in seconds
  lastCall,   \* observation of the last ApolloAPI call (fetchLeads or getCachedLeads)
  filterPair, \* two filter objects handed to _generateCacheKey
  keyPair,    \* the two keys _generateCacheKey returned for them
  leadsSheet,    \* the 'Leads' sheet: whether it exists, its rows
  settingsSheet, \* the 'Settings' sheet: whether it exists, its values
  userProps,     \* user property APOLLO_API_KEY
  driveFiles,    \* the files created in Drive
  libCall        \* observation of the last LeadLib call

pipelineVars == <<rawLeads, cleaned>>
cacheVars    == <<cache, listCache, now, lastCall>>
keyVars      == <<filterPair, keyPair>>
storeVars    == <<leadsSheet, settingsSheet, userProps, driveFiles, libCall>>
vars         == <<rawLeads, cleaned, cache, listCache, now, lastCall, filterPair,
                  keyPair,
                  leadsSheet, settingsSheet, userProps, driveFiles, libCall>>

----------------------------------------------------------------------------
(* Bounds *)

MaxBatch == 3

----------------------------------------------------------------------------
(* JavaScript values and strings *)

Undef  == [t |-> "undefined", s |-> <<>>, n |-> 0]
Null   == [t |-> "null", s |-> <<>>, n |-> 0]
Str(s) == [t |-> "string", s |-> s, n |-> 0]
Num(n) == [t |-> "number", s |-> <<>>, n |-> n]
\* the number n.digits
Frac(n, digits) == [t |-> "number", s |-> digits, n |-> n]

\* !v for the value kinds above
Falsy(v) ==
  \/ v.t = "undefined"
  \/ v.t = "null"
  \/ v.t = "string" /\ v.s = <<>>
  \/ v.t = "number" /\ v.n = 0 /\ v.s = <<>>

UpperChars == <<"A","B","C","D","E","F","G","H","I","J","K","L","M",
                "N","O","P","Q","R","S","T","U","V","W","X","Y","Z">>
LowerChars == <<"a","b","c","d","e","f","g","h","i","j","k","l","m",
                "n","o","p","q","r","s","t","u","v","w","x","y","z">>
DigitChars == <<"0","1","2","3","4","5","6","7","8","9">>

IsUpper(c) == \E i \in 1..26 : UpperChars[i] = c
IsLower(c) == \E i \in 1..26 : LowerChars[i] = c
IsDigit(c) == \E i \in 1..10 : DigitChars[i] = c
IsSpace(c) == c = " "

ToLowerChar(c) ==
  IF IsUpper(c) THEN LowerChars[CHOOSE i \in 1..26 : UpperChars[i] = c] ELSE c
ToUpperChar(c) ==
  IF IsLower(c) THEN UpperChars[CHOOSE i \in 1..26 : LowerChars[i] = c] ELSE c

toLowerCase(s) == [i \in 1..Len(s) |-> ToLowerChar(s[i])]

RECURSIVE trimStart(_)
trimStart(s) ==
  IF s # <<>> /\ IsSpace(Head(s)) THEN trimStart(Tail(s)) ELSE s

RECURSIVE trimEnd(_)
trimEnd(s) ==
  IF s # <<>> /\ IsSpace(s[Len(s)]) THEN trimEnd(SubSeq(s, 1, Len(s) - 1)) ELSE s

trim(s) == trimEnd(trimStart(s))

\* s.replace(/\s+/g, ' '): every run of whitespace becomes one space
RECURSIVE collapseSpaces(_)
collapseSpaces(s) ==
  IF Len(s) < 2 THEN s
  ELSE IF IsSpace(s[1]) /\ IsSpace(s[2]) THEN collapseSpaces(Tail(s))
  ELSE <<s[1]>> \o collapseSpaces(Tail(s))

\* decimal text of a non-negative integer (String(n))
RECURSIVE IntToStr(_)
IntToStr(n) ==
  IF n < 10 THEN <<DigitChars[n + 1]>>
  ELSE IntToStr(n \div 10) \o <<DigitChars[(n % 10) + 1]>>

\* String(v), the coercion RegExp.prototype.test applies to its argument
ToStr(v) ==
  CASE v.t = "string" -> v.s
    [] v.t = "number" -> IntToStr(v.n)
    [] OTHER -> <<"u","n","d","e","f","i","n","e","d">>

\* the longest prefix of s made of decimal digits
RECURSIVE DigitPrefix(_)
DigitPrefix(s) ==
  IF s # <<>> /\ IsDigit(Head(s)) THEN <<Head(s)>> \o DigitPrefix(Tail(s))
  ELSE <<>>

DigitValue(c) == (CHOOSE i \in 1..10 : DigitChars[i] = c) - 1

\* the number a string of decimal digits writes, 0 for no digit
RECURSIVE DigitsToNat(_)
DigitsToNat(ds) ==
  IF ds = <<>> THEN 0
  ELSE 10 * DigitsToNat(SubSeq(ds, 1, Len(ds) - 1)) + DigitValue(ds[Len(ds)])

RECURSIVE StripTrailingZeros(_)
StripTrailingZeros(ds) ==
  IF ds # <<>> /\ ds[Len(ds)] = "0"
  THEN StripTrailingZeros(SubSeq(ds, 1, Len(ds) - 1))
  ELSE ds

\* String(v) of a number as parseInt and parseFloat read it
NumToStr(v) ==
  (IF v.n < 0 THEN <<"-">> \o IntToStr(-v.n) ELSE IntToStr(v.n))
    \o (IF v.s = <<>> THEN <<>> ELSE <<".">> \o v.s)

\* parseInt(s): leading white space, a sign, then digits up to the first
\* character that is none; NaN when there is no digit
parseIntStr(s) ==
  LET t      == trimStart(s)
      signed == t # <<>> /\ Head(t) \in {"-", "+"}
      body   == IF signed THEN Tail(t) ELSE t
      digits == DigitPrefix(body)
      value  == DigitsToNat(digits)
  IN [nan |-> digits = <<>>,
      num |-> Num(IF signed /\ Head(t) = "-" THEN -value ELSE value)]

\* parseFloat(s): as parseInt, with a point and digits after it; NaN when
\* there is no digit on either side of the point
parseFloat(s) ==
  LET t        == trimStart(s)
      signed   == t # <<>> /\ Head(t) \in {"-", "+"}
      body     == IF signed THEN Tail(t) ELSE t
      digits   == DigitPrefix(body)
      rest     == SubSeq(body, Len(digits) + 1, Len(body))
      decimals == IF rest # <<>> /\ Head(rest) = "."
                  THEN DigitPrefix(Tail(rest)) ELSE <<>>
      value    == DigitsToNat(digits)
  IN [nan |-> digits = <<>> /\ decimals = <<>>,
      num |-> Frac(IF signed /\ Head(t) = "-" THEN -value ELSE value,
                   StripTrailingZeros(decimals))]

\* parseInt(v): the argument is converted to a string first
parseInt(v) ==
  CASE v.t = "string" -> parseIntStr(v.s)
    [] v.t = "number" -> parseIntStr(NumToStr(v))
    [] OTHER          -> [nan |-> TRUE, num |-> Num(0)]

----------------------------------------------------------------------------
(* LeadLib.DataProcessor: validation *)

\* /^[^\s@]+@[^\s@]+\.[^\s@]+$/ .test(s)
emailRegex(s) ==
  /\ \A i \in 1..Len(s) : ~IsSpace(s[i])
  /\ Cardinality({i \in 1..Len(s) : s[i] = "@"}) = 1
  /\ \E i \in 1..Len(s), j \in 1..Len(s) :
       /\ s[i] = "@" /\ s[j] = "."
       /\ i > 1 /\ j > i + 1 /\ j < Len(s)

\* /^[a-zA-Z\s\-\.]+$/ .test(s)
nameRegex(s) ==
  /\ Len(s) >= 1
  /\ \A i \in 1..Len(s) :
       IsUpper(s[i]) \/ IsLower(s[i]) \/ IsSpace(s[i]) \/ s[i] \in {"-", "."}

isValidEmail(email) == emailRegex(ToStr(email))

\* name.length is undefined for a number, and undefined > 1 is false
isValidName(name) ==
  nameRegex(ToStr(name)) /\ name.t = "string" /\ Len(name.s) > 1


----------------------------------------------------------------------------
(* LeadLib.DataProcessor: field cleaners.  A cleaner takes the raw value  *)
(* and returns the characters of the cleaned string, cleanEmployees the    *)
(* cleaned number.  The cleaners of industry, foundedYear, phone,          *)
(* location, linkedin, website and description write fields no operation   *)
(* below reads.                                                            *)

\* word.charAt(0).toUpperCase() + word.slice(1).toLowerCase() on every word
\* of s.split(' '), joined with ' ': a character is upper-cased when it
\* starts the string or follows a space, lower-cased otherwise
capitalizeWords(s) ==
  [i \in 1..Len(s) |->
     IF i = 1 \/ s[i - 1] = " " THEN ToUpperChar(s[i]) ELSE ToLowerChar(s[i])]

cleanName(name) ==
  IF Falsy(name) THEN <<>> ELSE capitalizeWords(trim(name.s))

titleMappings == <<
  <<<<"c","e","o">>,
    <<"C","E","O">>>>,
  <<<<"c","h","i","e","f"," ","e","x","e","c","u","t","i","v","e"," ","o","f","f","i","c","e","r">>,
    <<"C","E","O">>>>,
  <<<<"o","w","n","e","r">>,
    <<"O","w","n","e","r">>>>,
  <<<<"f","o","u","n","d","e","r">>,
    <<"F","o","u","n","d","e","r">>>>,
  <<<<"p","r","e","s","i","d","e","n","t">>,
    <<"P","r","e","s","i","d","e","n","t">>>>,
  <<<<"c","o","o">>,
    <<"C","O","O">>>>,
  <<<<"c","h","i","e","f"," ","o","p","e","r","a","t","i","n","g"," ","o","f","f","i","c","e","r">>,
    <<"C","O","O">>>>,
  <<<<"c","t","o">>,
    <<"C","T","O">>>>,
  <<<<"c","h","i","e","f"," ","t","e","c","h","n","o","l","o","g","y"," ","o","f","f","i","c","e","r">>,
    <<"C","T","O">>>>,
  <<<<"c","f","o">>,
    <<"C","F","O">>>>,
  <<<<"c","h","i","e","f"," ","f","i","n","a","n","c","i","a","l"," ","o","f","f","i","c","e","r">>,
    <<"C","F","O">>>>
>>

\* table[key] || fallback
Lookup(table, key, fallback) ==
  IF \E i \in 1..Len(table) : table[i][1] = key
  THEN table[CHOOSE i \in 1..Len(table) : table[i][1] = key][2]
  ELSE fallback

cleanTitle(title) ==
  IF Falsy(title) THEN <<>>
  ELSE Lookup(titleMappings, trim(toLowerCase(title.s)), title.s)

\* [\w\s\-\.&]
IsCompanyChar(c) ==
  IsUpper(c) \/ IsLower(c) \/ IsDigit(c) \/ IsSpace(c) \/ c \in {"_", "-", ".", "&"}

cleanCompany(company) ==
  IF Falsy(company) THEN <<>>
  ELSE SelectSeq(collapseSpaces(trim(company.s)), IsCompanyChar)

\* !employees, parseInt, isNaN(num) ? 0 : Math.max(0, num)
cleanEmployees(employees) ==
  IF Falsy(employees) THEN Num(0)
  ELSE LET num == parseInt(employees) IN
       IF num.nan THEN Num(0)
       ELSE IF num.num.n < 0 THEN Num(0) ELSE num.num

\* new Date().getFullYear() at the time t, in seconds since 1970-01-01: the
\* calendar year of the day t falls on
IsLeapYear(y) == (y % 4 = 0 /\ y % 100 # 0) \/ y % 400 = 0
DaysInYear(y) == IF IsLeapYear(y) THEN 366 ELSE 365
RECURSIVE YearOfDay(_, _)
YearOfDay(days, y) ==
  IF days < DaysInYear(y) THEN y ELSE YearOfDay(days - DaysInYear(y), y + 1)
getFullYear(t) == YearOfDay(t \div 86400, 1970)

\* v < k and v > k of a number v and an integer k >= 1
NumLess(v, k)    == v.n < k
NumGreater(v, k) == v.n > k \/ (v.n = k /\ v.s # <<>>)

\* !year, parseInt, then '' unless 1800 <= num <= currentYear
cleanFoundedYear(year) ==
  IF Falsy(year) THEN Str(<<>>)
  ELSE LET num         == parseInt(year)
           currentYear == getFullYear(now)
       IN IF num.nan \/ NumLess(num.num, 1800) \/ NumGreater(num.num, currentYear)
          THEN Str(<<>>)
          ELSE num.num

\* 'lead_' + Utilities.getUuid(); the fresh text is the position of the lead
generateLeadId(index) == Str(<<"l","e","a","d","_">> \o IntToStr(index))

----------------------------------------------------------------------------
(* LeadLib.DataProcessor.prototype.cleanLeads *)

\* the element is null, so reading lead.email throws inside the try block
IsNullLead(lead) == lead.isNull

isValidLeadNoNameCheck(lead) ==
  ~Falsy(lead.email) /\ isValidEmail(lead.email)

\* the two "Validate required fields" tests; FALSE is the early return
isValidLead(lead) ==
  /\ ~Falsy(lead.email) /\ isValidEmail(lead.email)
  /\ ~Falsy(lead.name) /\ isValidName(lead.name)

isDuplicateCaseSensitive(lead, seenEmails, seenNames) ==
  \/ lead.email.s \in seenEmails
  \/ toLowerCase(lead.name.s) \in seenNames

\* the two "Check for duplicates" tests; TRUE is the early return
isDuplicate(lead, seenEmails, seenNames) ==
  \/ toLowerCase(lead.email.s) \in seenEmails
  \/ toLowerCase(lead.name.s) \in seenNames

\* title.toLowerCase / company.trim is not a function: a TypeError inside try
cleaningThrows(lead) ==
  \/ ~Falsy(lead.title) /\ lead.title.t # "string"
  \/ ~Falsy(lead.company) /\ lead.company.t # "string"

cleanedLead(lead, index) ==
  [ id        |-> IF Falsy(lead.id) THEN generateLeadId(index) ELSE lead.id,
    name      |-> cleanName(lead.name),
    title     |-> cleanTitle(lead.title),
    company   |-> cleanCompany(lead.company),
    employees |-> cleanEmployees(lead.employees),
    foundedYear |-> cleanFoundedYear(lead.foundedYear),
    email     |-> trim(toLowerCase(lead.email.s)),
    contacted |-> FALSE,
    source    |-> "Apollo.io" ]

unshiftLead(cleanedLeads, lead) == <<lead>> \o cleanedLeads

\* cleanedLeads.push(cleanedLead)
pushLead(cleanedLeads, lead) == Append(cleanedLeads, lead)

\* the body of rawLeads.forEach, from element index on; acc holds
\* cleanedLeads, seenEmails and seenNames
RECURSIVE cleanLeadsFrom(_, _, _)
cleanLeadsFrom(leads, index, acc) ==
  IF index > Len(leads) THEN acc.cleanedLeads
  ELSE LET lead == leads[index] IN
    IF \/ IsNullLead(lead)
       \/ ~isValidLead(lead)
       \/ isDuplicate(lead, acc.seenEmails, acc.seenNames)
       \/ cleaningThrows(lead)
    THEN cleanLeadsFrom(leads, index + 1, acc)
    ELSE cleanLeadsFrom(leads, index + 1,
           [ cleanedLeads |-> pushLead(acc.cleanedLeads, cleanedLead(lead, index)),
             seenEmails   |-> acc.seenEmails \cup {toLowerCase(lead.email.s)},
             seenNames    |-> acc.seenNames \cup {toLowerCase(lead.name.s)} ])

cleanLeads(leads) ==
  cleanLeadsFrom(leads, 1,
    [cleanedLeads |-> <<>>, seenEmails |-> {}, seenNames |-> {}])

----------------------------------------------------------------------------
(* class DataProcessor (apolloApi.js) *)

_cleanName(name) ==
  IF Falsy(name) \/ name.t # "string" THEN <<>>
  ELSE capitalizeWords(trim(name.s))

titleMap == <<
  <<<<"c","e","o">>,
    <<"C","E","O">>>>,
  <<<<"c","h","i","e","f"," ","e","x","e","c","u","t","i","v","e"," ","o","f","f","i","c","e","r">>,
    <<"C","E","O">>>>,
  <<<<"o","w","n","e","r">>,
    <<"O","w","n","e","r">>>>,
  <<<<"f","o","u","n","d","e","r">>,
    <<"F","o","u","n","d","e","r">>>>,
  <<<<"p","r","e","s","i","d","e","n","t">>,
    <<"P","r","e","s","i","d","e","n","t">>>>,
  <<<<"c","o","-","f","o","u","n","d","e","r">>,
    <<"C","o","-","F","o","u","n","d","e","r">>>>,
  <<<<"c","o","f","o","u","n","d","e","r">>,
    <<"C","o","-","F","o","u","n","d","e","r">>>>
>>

_cleanTitle(title) ==
  IF Falsy(title) \/ title.t # "string" THEN <<>>
  ELSE Lookup(titleMap, toLowerCase(trim(title.s)), trim(title.s))

_cleanCompanyName(company) ==
  IF Falsy(company) \/ company.t # "string" THEN <<>>
  ELSE collapseSpaces(trim(company.s))

_cleanEmail(email) ==
  IF Falsy(email) \/ email.t # "string" THEN <<>>
  ELSE LET cleanEmail == toLowerCase(trim(email.s)) IN
       IF emailRegex(cleanEmail) THEN cleanEmail ELSE <<>>

IsNumberChar(c) == IsDigit(c) \/ c \in {".", "-"}

\* a number is returned as it is; of a string the characters other than
\* digits, '.' and '-' are dropped and parseFloat reads the rest
_cleanNumber(value) ==
  CASE value.t = "number" -> value
    [] value.t = "string" ->
         LET num == parseFloat(SelectSeq(value.s, IsNumberChar)) IN
           IF num.nan THEN Num(0) ELSE num.num
    [] OTHER -> Num(0)

\* _cleanNumber, then null unless 1800 <= cleanYear <= currentYear
_cleanYear(year) ==
  LET cleanYear   == _cleanNumber(year)
      currentYear == getFullYear(now)
  IN IF NumLess(cleanYear, 1800) \/ NumGreater(cleanYear, currentYear)
     THEN Null
     ELSE cleanYear

\* 'lead.id || this._generateId()'
_generateId(index) == Str(IntToStr(index))

_cleanIndividualLead(lead, index) ==
  [ id        |-> IF Falsy(lead.id) THEN _generateId(index) ELSE lead.id,
    name      |-> _cleanName(lead.name),
    title     |-> _cleanTitle(lead.title),
    company   |-> _cleanCompanyName(lead.company),
    employees |-> _cleanNumber(lead.employees),
    yearFounded |-> _cleanYear(lead.yearFounded),
    email     |-> _cleanEmail(lead.email),
    contacted |-> FALSE ]

validTitles == {
  <<"C","E","O">>,
  <<"O","w","n","e","r">>,
  <<"F","o","u","n","d","e","r">>,
  <<"P","r","e","s","i","d","e","n","t">>,
  <<"C","o","-","F","o","u","n","d","e","r">>
}

_validateLead(lead) ==
  /\ lead.name # <<>> /\ lead.company # <<>>
  /\ lead.email # <<>>
  /\ lead.title \in validTitles

\* leads.findIndex(l => l.email === lead.email) === index
_deduplicateLead(lead, index, leads) ==
  (CHOOSE i \in 1..Len(leads) :
     /\ leads[i].email = lead.email
     /\ \A j \in 1..(i - 1) : leads[j].email # lead.email) = index

\* arr.filter((x, index, self) => keep(x, index, self))
FilterIndexed(arr, keep(_, _, _)) ==
  LET RECURSIVE go(_)
      go(i) == IF i > Len(arr) THEN <<>>
               ELSE IF keep(arr[i], i, arr) THEN <<arr[i]>> \o go(i + 1)
               ELSE go(i + 1)
  IN go(1)

\* the map/filter/filter chain; reading lead.id of a null element throws a
\* TypeError that nothing in cleanLeads catches
DataProcessor_cleanLeads(leads) ==
  IF \E i \in 1..Len(leads) : IsNullLead(leads[i])
  THEN [threw |-> TRUE, leads |-> <<>>]
  ELSE LET mapped    == [i \in 1..Len(leads) |-> _cleanIndividualLead(leads[i], i)]
           validated == SelectSeq(mapped, _validateLead)
       IN [threw |-> FALSE,
           leads |-> FilterIndexed(validated, _deduplicateLead)]

----------------------------------------------------------------------------
(* Input batches of the cleaning pipeline *)

eJohnUpper == <<"J","@","x",".","c">>
eJohn      == <<"j","@","x",".","c">>
eKate      == <<"k","@","x",".","c">>
eNoAt      == <<"j","x">>
nAlB       == <<"a","l"," ","b">>
nAlBUpper  == <<"A","L"," ","B">>
nCy        == <<"c","y">>
nShort     == <<"a">>
tCeo       == <<"c","e","o">>
tCto       == <<"C","T","O">>
cAcme      == <<"A","c","m","e">>

Lead(email, name, title, company) ==
  [isNull |-> FALSE, id |-> Undef, email |-> email, name |-> name,
   title |-> title, company |-> company, employees |-> Undef,
   foundedYear |-> Undef, yearFounded |-> Undef]

NullLead ==
  [isNull |-> TRUE, id |-> Undef, email |-> Undef, name |-> Undef,
   title |-> Undef, company |-> Undef, employees |-> Undef,
   foundedYear |-> Undef, yearFounded |-> Undef]

\* the elements a raw batch is built from: five pairings of three emails
\* (two equal up to case) with three names (two equal up to case), one
\* element for each way a field can be missing, empty, malformed or of the
\* wrong type, and the null element
RawLeadChoices ==
  { Lead(Str(p[1]), Str(p[2]), Str(tCeo), Str(cAcme)) :
      p \in { <<eJohnUpper, nAlB>>, <<eJohn, nAlBUpper>>, <<eJohn, nCy>>,
              <<eKate, nAlB>>, <<eKate, nCy>> } }
  \cup
  { Lead(e, Str(nCy), Str(tCeo), Str(cAcme)) :
      e \in {Undef, Str(<<>>), Str(eNoAt)} }
  \cup
  { Lead(Str(eJohn), n, Str(tCeo), Str(cAcme)) :
      n \in {Undef, Str(<<>>), Str(nShort)} }
  \cup
  { Lead(Str(eJohn), Str(nCy), t, Str(cAcme)) :
      t \in {Str(tCto), Num(7)} }
  \cup
  { Lead(Str(eJohn), Str(nCy), Str(tCeo), c) :
      c \in {Undef, Str(<<>>)} }
  \cup
  { NullLead }

\* person.id of the API: element i of a batch carries the id i
WithIds(batch) ==
  [i \in 1..Len(batch) |->
     IF batch[i].isNull THEN batch[i] ELSE [batch[i] EXCEPT !.id = Num(i)]]

NotCleaned == [variant |-> "none", threw |-> FALSE, leads |-> <<>>]

----------------------------------------------------------------------------
(* Cleaning pipeline as a state machine: a batch arrives, one of the two   *)
(* cleanLeads implementations runs on it                                   *)

\* LeadLib.cleanLeads(rawLeads): every exception is caught per element
LeadLibCleanLeads ==
  /\ cleaned.variant = "none"
  /\ cleaned' = [variant |-> "LeadLib", threw |-> FALSE,
                 leads |-> cleanLeads(rawLeads)]
  /\ UNCHANGED <<rawLeads, cacheVars, keyVars, storeVars>>

\* new DataProcessor().cleanLeads(rawLeads)
DataProcessorCleanLeads ==
  /\ cleaned.variant = "none"
  /\ LET r == DataProcessor_cleanLeads(rawLeads) IN
       cleaned' = [variant |-> "DataProcessor", threw |-> r.threw,
                   leads |-> r.leads]
  /\ UNCHANGED <<rawLeads, cacheVars, keyVars, storeVars>>

----------------------------------------------------------------------------
(* Cache key: 'leads_' + Utilities.base64Encode(JSON.stringify(filters))   *)
(*                                                                         *)
(* A filters object is the sequence of its members <<name, value>> in      *)
(* insertion order, which is the order JSON.stringify writes them in.  A   *)
(* filter value is a record [t, s, n, a]: type tag, characters of a        *)
(* string, number, elements of an array of strings.                        *)

MaxFilterKeys == 2

FUndef   == [t |-> "undefined", s |-> <<>>, n |-> 0, a |-> <<>>]
FStr(s)  == [t |-> "string", s |-> s, n |-> 0, a |-> <<>>]
FNum(n)  == [t |-> "number", s |-> <<>>, n |-> n, a |-> <<>>]
FArr(a)  == [t |-> "array", s |-> <<>>, n |-> 0, a |-> a]

\* ASCII codes of the punctuation JSON text is written with
PunctuationCodes ==
  << <<" ", 32>>, <<"\"", 34>>, <<",", 44>>, <<"-", 45>>, <<".", 46>>,
     <<":", 58>>, <<"@", 64>>, <<"[", 91>>, <<"]", 93>>, <<"_", 95>>,
     <<"{", 123>>, <<"}", 125>> >>

\* text.charCodeAt: 'A' is 65, 'a' is 97, '0' is 48
CharCode(c) ==
  IF IsUpper(c) THEN 64 + (CHOOSE i \in 1..26 : UpperChars[i] = c)
  ELSE IF IsLower(c) THEN 96 + (CHOOSE i \in 1..26 : LowerChars[i] = c)
  ELSE IF IsDigit(c) THEN 47 + (CHOOSE i \in 1..10 : DigitChars[i] = c)
  ELSE PunctuationCodes[CHOOSE i \in 1..Len(PunctuationCodes) :
                          PunctuationCodes[i][1] = c][2]

Base64Chars == <<
  "A","B","C","D","E","F","G","H","I","J","K","L","M","N","O","P",
  "Q","R","S","T","U","V","W","X","Y","Z","a","b","c","d","e","f",
  "g","h","i","j","k","l","m","n","o","p","q","r","s","t","u","v",
  "w","x","y","z","0","1","2","3","4","5","6","7","8","9","+","/"
>>

Quote(s) == <<"\"">> \o s \o <<"\"">>

\* parts[1] + sep + parts[2] + ...
RECURSIVE Join(_, _)
Join(parts, sep) ==
  IF parts = <<>> THEN <<>>
  ELSE IF Len(parts) = 1 THEN parts[1]
  ELSE parts[1] \o sep \o Join(Tail(parts), sep)

\* JSON text of a filter value
JSON_value(v) ==
  CASE v.t = "number" -> IntToStr(v.n)
    [] v.t = "string" -> Quote(v.s)
    [] v.t = "array"  -> <<"[">> \o Join([i \in 1..Len(v.a) |-> Quote(v.a[i])], <<",">>) \o <<"]">>
    [] OTHER -> <<>>

IsDefinedMember(m) == m[2].t # "undefined"

\* JSON.stringify(filters): members in insertion order, a member whose
\* value is undefined is left out
JSON_stringify(filters) ==
  LET kept == SelectSeq(filters, IsDefinedMember) IN
    <<"{">>
    \o Join([i \in 1..Len(kept) |-> Quote(kept[i][1]) \o <<":">> \o JSON_value(kept[i][2])],
            <<",">>)
    \o <<"}">>

\* Utilities.base64Encode(text): the bytes of the text, three at a time,
\* as four characters of six bits each, padded with '='
RECURSIVE base64Bytes(_)
base64Bytes(b) ==
  IF Len(b) = 0 THEN <<>>
  ELSE IF Len(b) = 1 THEN
    << Base64Chars[(b[1] \div 4) + 1],
       Base64Chars[((b[1] % 4) * 16) + 1], "=", "=" >>
  ELSE IF Len(b) = 2 THEN
    << Base64Chars[(b[1] \div 4) + 1],
       Base64Chars[((b[1] % 4) * 16 + (b[2] \div 16)) + 1],
       Base64Chars[((b[2] % 16) * 4) + 1], "=" >>
  ELSE
    << Base64Chars[(b[1] \div 4) + 1],
       Base64Chars[((b[1] % 4) * 16 + (b[2] \div 16)) + 1],
       Base64Chars[((b[2] % 16) * 4 + (b[3] \div 64)) + 1],
       Base64Chars[(b[3] % 64) + 1] >>
    \o base64Bytes(SubSeq(b, 4, Len(b)))

base64Encode(text) == base64Bytes([i \in 1..Len(text) |-> CharCode(text[i])])

_generateCacheKey(filters) ==
  <<"l","e","a","d","s","_">> \o base64Encode(JSON_stringify(filters))

fRoles  == <<"r","o","l","e","s">>
fPage   == <<"p","a","g","e">>
fSector == <<"s","e","c","t","o","r">>

\* the members a filters object is built from
FilterMembers ==
  { <<fRoles, FArr(<< <<"C","E","O">> >>)>>,
    <<fPage, FNum(1)>>, <<fPage, FNum(2)>>,
    <<fSector, FStr(<<"i","t">>)>>, <<fSector, FUndef>> }

\* every insertion order of up to MaxFilterKeys members with distinct names
FilterObjects ==
  UNION { { f \in [1..len -> FilterMembers] :
              \A i, j \in 1..len : i # j => f[i][1] # f[j][1] } :
          len \in 0..MaxFilterKeys }

NoKeys == <<>>

\* _generateCacheKey called on each of the two filter objects
GenerateCacheKeys ==
  /\ keyPair = NoKeys
  /\ keyPair' = << _generateCacheKey(filterPair[1]),
                   _generateCacheKey(filterPair[2]) >>
  /\ UNCHANGED <<filterPair, pipelineVars, cacheVars, storeVars>>

----------------------------------------------------------------------------
(* Script cache (CacheService).  The repository calls put, get and         *)
(* removeAll; expiry is the cache's own: an entry holds its payload and    *)
(* the time it was put, and get treats an entry older than its time to     *)
(* live as absent.  An expired entry is never returned again, so whether   *)
(* it is still stored cannot be observed; the model keeps it.  An entry    *)
(* also remembers, for the properties only, the batch that was serialized  *)
(* into it.                                                                *)

MaxPeople == 1

\* instants the clock can show: 3599, 3600 and 3601 seconds apart
TimePoints == {0, 1, 3600, 3601}

\* the one key listLeadsApi uses
ListCacheKey == "leads_full_list"

NoEntry ==
  [present |-> FALSE, value |-> <<>>, putAt |-> 0, ttl |-> 0, leads |-> <<>>]

CachePut(c, key, value, ttl, t, leads) ==
  [c EXCEPT ![key] = [present |-> TRUE, value |-> value, putAt |-> t,
                      ttl |-> ttl, leads |-> leads]]

CacheLive(entry, t) == entry.present /\ t - entry.putAt <= entry.ttl

NoListCache == [k \in {ListCacheKey} |-> NoEntry]

\* cache.get(key): the payload, or null
CacheGet(c, key, t) ==
  IF CacheLive(c[key], t) THEN [found |-> TRUE, value |-> c[key].value]
  ELSE [found |-> FALSE, value |-> <<>>]

----------------------------------------------------------------------------
(* ApolloAPI (apolloApi.js) *)

Date(t) == [t |-> "date", s |-> <<>>, n |-> t]

\* Date.prototype.toISOString: the text of the instant
toISOString(t) == <<"T">> \o IntToStr(t)

\* x || '' for a field of the API response
OrEmpty(v) == IF Falsy(v) THEN Str(<<>>) ELSE v

\* people.map(person => ({...})); lastUpdated is new Date()
_processApiResponse(people, t) ==
  [i \in 1..Len(people) |->
     [ isNull      |-> FALSE,
       id          |-> people[i].id,
       name        |-> people[i].name,
       title       |-> people[i].title,
       company     |-> OrEmpty(people[i].orgName),
       \* estimated_num_employees || 0: the people of this model carry none
       employees   |-> Num(0),
       email       |-> OrEmpty(people[i].email),
       lastUpdated |-> Date(t) ]]

LeadFields ==
  <<"id", "name", "title", "company", "employees", "email", "lastUpdated">>

\* JSON text of one value: a Date is written as its ISO string
JsonOf(v) == IF v.t = "date" THEN Str(toISOString(v.n)) ELSE v

IsWritten(m) == m[2].t # "undefined"

\* JSON.stringify(leads): per lead its members in field order; a member
\* whose value is undefined is left out
stringifyLeads(leads) ==
  [i \in 1..Len(leads) |->
     SelectSeq([k \in 1..Len(LeadFields) |->
                  <<LeadFields[k], JsonOf(leads[i][LeadFields[k]])>>],
               IsWritten)]

\* obj[field] of a parsed object: undefined when the text has no such member
MemberOf(members, field) ==
  IF \E k \in 1..Len(members) : members[k][1] = field
  THEN members[CHOOSE k \in 1..Len(members) : members[k][1] = field][2]
  ELSE Undef

\* JSON.parse(text) of a text written by stringifyLeads
parseLeads(text) ==
  [i \in 1..Len(text) |->
     [ isNull      |-> FALSE,
       id          |-> MemberOf(text[i], "id"),
       name        |-> MemberOf(text[i], "name"),
       title       |-> MemberOf(text[i], "title"),
       company     |-> MemberOf(text[i], "company"),
       employees   |-> MemberOf(text[i], "employees"),
       email       |-> MemberOf(text[i], "email"),
       lastUpdated |-> MemberOf(text[i], "lastUpdated") ]]

\* the time to live cacheLeads passes to cache.put
CacheSeconds == 3600

cacheLeadsTenMinutes(c, leads, key, t) ==
  CachePut(c, key, stringifyLeads(leads), 600, t, leads)

\* this.cache.put(key, JSON.stringify(leads), 3600)
cacheLeads(c, leads, key, t) ==
  CachePut(c, key, stringifyLeads(leads), CacheSeconds, t, leads)

\* cached ? JSON.parse(cached) : null
getCachedLeads(c, key, t) ==
  LET cached == CacheGet(c, key, t) IN
    IF cached.found THEN [found |-> TRUE, leads |-> parseLeads(cached.value)]
    ELSE [found |-> FALSE, leads |-> <<>>]

\* this.cache.removeAll(['leads_']): removeAll removes the entries whose
\* keys are listed
clearCache(c) ==
  [k \in DOMAIN c |-> IF k = <<"l","e","a","d","s","_">> THEN NoEntry ELSE c[k]]

IsCacheHitAnyLength(cachedData) == cachedData.found

\* cachedData && cachedData.length > 0
IsCacheHit(cachedData) == cachedData.found /\ Len(cachedData.leads) > 0

Person(id, name, title, orgName, email) ==
  [id |-> id, name |-> name, title |-> title, orgName |-> orgName, email |-> email]

\* the person records the API answers with
Persons ==
  { Person(Num(1), Str(nAlB), Undef, Str(cAcme), Str(eJohn)) }

PeopleLists == UNION { [1..len -> Persons] : len \in 0..MaxPeople }

\* what UrlFetchApp.fetch can come back with: a 200 whose body has a people
\* list, a 200 whose body has none, another status, or a thrown network error
ApiResponses ==
  { [kind |-> "ok", code |-> 200, hasPeople |-> TRUE, people |-> p] : p \in PeopleLists }
  \cup { [kind |-> "ok", code |-> 200, hasPeople |-> FALSE, people |-> <<>>] }
  \cup { [kind |-> "ok", code |-> c, hasPeople |-> FALSE, people |-> <<>>] : c \in {429, 500} }
  \cup { [kind |-> "network", code |-> 0, hasPeople |-> FALSE, people |-> <<>>] }

ApiCallThrowsOnNetworkErrorOnly(resp) == resp.kind = "network"

\* _makeApiCall throws unless the fetch returns with status 200
ApiCallThrows(resp) == resp.kind = "network" \/ resp.code # 200

\* the filter objects fetchLeads is called with: the same members in two
\* insertion orders
FetchFilters ==
  { << <<fRoles, FArr(<< <<"C","E","O">> >>)>>, <<fPage, FNum(1)>> >>,
    << <<fPage, FNum(1)>>, <<fRoles, FArr(<< <<"C","E","O">> >>)>> >> }

\* this._generateCacheKey(filters) of each filter object of the model,
\* derived once
CacheKeyOf == [f \in FetchFilters |-> _generateCacheKey(f)]

CacheKeys == { CacheKeyOf[f] : f \in FetchFilters }

NoCall ==
  [op |-> "none", filters |-> <<>>, key |-> <<>>, at |-> 0, hadEntry |-> FALSE,
   cachedCount |-> 0, calls |-> 0, response |-> "none", status |-> 0,
   threw |-> FALSE, found |-> FALSE, result |-> <<>>]

\* ApolloAPI.fetchLeads(filters), resp being what the API answers if called.
\* The observation records whether cache.get returned an entry (hadEntry)
\* and of how many leads (cachedCount), how many times UrlFetchApp.fetch was
\* called (calls), the status of the answer (status, 0 when there was
\* none), whether fetchLeads threw, and the batch it returned (result).
FetchLeads(filters, resp) ==
  LET cacheKey   == CacheKeyOf[filters]
      cachedData == getCachedLeads(cache, cacheKey, now)
      leads      == _processApiResponse(resp.people, now)
      call       == [NoCall EXCEPT !.op = "fetchLeads", !.filters = filters,
                       !.key = cacheKey, !.at = now,
                       !.hadEntry = cachedData.found,
                       !.cachedCount = Len(cachedData.leads)]
  IN
    /\ UNCHANGED <<listCache, now, pipelineVars, keyVars, storeVars>>
    /\ IF IsCacheHit(cachedData) THEN
         \* 'Returning cached leads'
         /\ cache' = cache
         /\ lastCall' = [call EXCEPT !.found = TRUE, !.result = cachedData.leads]
       ELSE IF ApiCallThrows(resp) THEN
         \* caught, rethrown as 'Failed to fetch leads from Apollo.io'
         /\ cache' = cache
         /\ lastCall' = [call EXCEPT !.calls = 1,
                           !.response = IF resp.kind = "network" THEN "network"
                                        ELSE "status",
                           !.status = resp.code, !.threw = TRUE]
       ELSE IF resp.hasPeople THEN
         /\ cache' = cacheLeads(cache, leads, cacheKey, now)
         /\ lastCall' = [call EXCEPT !.calls = 1, !.response = "people",
                           !.status = resp.code,
                           !.found = TRUE, !.result = leads]
       ELSE
         \* return []
         /\ cache' = cache
         /\ lastCall' = [call EXCEPT !.calls = 1, !.response = "nopeople",
                           !.status = resp.code, !.found = TRUE]

\* ApolloAPI.getCachedLeads(key); found is FALSE when it returned null
GetCachedLeads(key) ==
  LET r == getCachedLeads(cache, key, now) IN
    /\ lastCall' = [NoCall EXCEPT !.op = "getCachedLeads", !.key = key,
                      !.at = now, !.hadEntry = r.found,
                      !.cachedCount = Len(r.leads),
                      !.found = r.found, !.result = r.leads]
    /\ UNCHANGED <<cache, listCache, now, pipelineVars, keyVars, storeVars>>

\* ApolloAPI.clearCache()
ClearCache ==
  /\ cache' = clearCache(cache)
  /\ lastCall' = [NoCall EXCEPT !.op = "clearCache", !.at = now]
  /\ UNCHANGED <<listCache, now, pipelineVars, keyVars, storeVars>>

\* time passes
Tick ==
  /\ \E t \in TimePoints : t > now /\ now' = t
  /\ UNCHANGED <<cache, listCache, lastCall, pipelineVars, keyVars, storeVars>>

----------------------------------------------------------------------------
(* LeadLib.SheetManager (sheetManager.js): the Leads and Settings sheets   *)
(*                                                                         *)
(* leadsSheet.rows are the rows below the header row, so getLastRow() is   *)
(* Len(rows) + 1.  A row keeps the cells the operations read or write:     *)
(* Lead Name, Title, Company Name, Employees, Email, Contacted, Source.    *)
(* settingsSheet.values maps the names of column 1 to the cells of         *)
(* column 2.                                                               *)

MaxRows == 3
MaxAppend == 2

SettingNames ==
  {"Apollo API Key", "Default Page Size", "Cache Duration", "Auto Refresh",
   "Last Updated", "Total Leads"}

\* the rows initializeSettingsSheet writes
DefaultSettings ==
  [n \in SettingNames |->
     CASE n = "Default Page Size" -> Str(<<"2","5">>)
       [] n = "Cache Duration"    -> Str(<<"3","6","0","0">>)
       [] n = "Auto Refresh"      -> Str(<<"F","A","L","S","E">>)
       [] n = "Total Leads"       -> Str(<<"0">>)
       [] OTHER                   -> Str(<<>>)]

NoSheet == [exists |-> FALSE, rows |-> <<>>]
NoSettings == [exists |-> FALSE, values |-> DefaultSettings]

\* sheet.clear() and the header row
initializeLeadsSheet(sheet) == [exists |-> TRUE, rows |-> <<>>]

initializeSettingsSheet(settings) == [exists |-> TRUE, values |-> DefaultSettings]

getLastRow(sheet) == Len(sheet.rows) + 1

\* one row of sheetData: lead.x || default for every cell
SheetRow(lead) ==
  [ name      |-> lead.name,
    title     |-> lead.title,
    company   |-> lead.company,
    employees |-> lead.employees,
    email     |-> lead.email,
    contacted |-> lead.contacted,
    source    |-> IF lead.source = "" THEN "Apollo.io" ELSE lead.source ]

sheetData(leads) == [i \in 1..Len(leads) |-> SheetRow(leads[i])]

\* updateSetting(settingName, value): without a Settings sheet the read of
\* sheet.getDataRange throws and the catch returns false
updateSetting(settings, settingName, value) ==
  IF ~settings.exists THEN [ok |-> FALSE, settings |-> settings]
  ELSE IF settingName \in DOMAIN settings.values
  THEN [ok |-> TRUE,
        settings |-> [settings EXCEPT !.values[settingName] = value]]
  ELSE [ok |-> FALSE, settings |-> settings]

appendLeadsInsertingSheet(sheet, settings, leads, t) ==
  [ok |-> TRUE,
   sheet |-> [exists |-> TRUE, rows |-> sheet.rows \o sheetData(leads)],
   settings |-> updateSetting(settings, "Total Leads",
                              Num(Len(sheet.rows) + Len(leads))).settings]

\* appendLeads writing the size of the batch as the total
appendLeadsCountingBatch(sheet, settings, leads, t) ==
  IF ~sheet.exists
  THEN [ok |-> FALSE, sheet |-> sheet, settings |-> settings]
  ELSE IF Len(leads) = 0
  THEN [ok |-> TRUE, sheet |-> sheet, settings |-> settings]
  ELSE [ok |-> TRUE,
        sheet |-> [sheet EXCEPT !.rows = @ \o sheetData(leads)],
        settings |-> updateSetting(
                       updateSetting(settings, "Total Leads",
                                     Num(Len(leads))).settings,
                       "Last Updated", Str(toISOString(t))).settings]

\* appendLeads(leads) at clock t
appendLeads(sheet, settings, leads, t) ==
  IF ~sheet.exists
  THEN \* 'Leads sheet not found. Please initialize the sheet first.', caught
       [ok |-> FALSE, sheet |-> sheet, settings |-> settings]
  ELSE IF Len(leads) = 0
  THEN [ok |-> TRUE, sheet |-> sheet, settings |-> settings]
  ELSE
    LET appended == [sheet EXCEPT !.rows = @ \o sheetData(leads)]
        counted  == updateSetting(settings, "Total Leads",
                                  Num(getLastRow(appended) - 1)).settings
        stamped  == updateSetting(counted, "Last Updated",
                                  Str(toISOString(t))).settings
    IN [ok |-> TRUE, sheet |-> appended, settings |-> stamped]

\* _getCompanySize(employees)
_getCompanySize(employees) ==
  IF employees <= 10 THEN "1-10"
  ELSE IF employees <= 50 THEN "11-50"
  ELSE IF employees <= 200 THEN "51-200"
  ELSE IF employees <= 500 THEN "201-500"
  ELSE IF employees <= 1000 THEN "501-1000"
  ELSE "1000+"

\* a filters object of getLeads: contacted is "any" when the member is
\* undefined, companySize is "" when it is absent
NoFilters == [contacted |-> "any", companySize |-> ""]

PassesFilters(lead, filters) ==
  /\ filters.companySize # "" =>
       _getCompanySize(lead.employees) = filters.companySize
  /\ filters.contacted # "any" =>
       lead.contacted = (filters.contacted = "true")

\* _applyFilters(leads, filters)
_applyFilters(leads, filters) ==
  IF filters = NoFilters THEN leads
  ELSE SelectSeq(leads, LAMBDA lead : PassesFilters(lead, filters))

\* getLeads(filters): no sheet or no row below the header gives []
getLeads(sheet, filters) ==
  IF ~sheet.exists \/ getLastRow(sheet) <= 1 THEN <<>>
  ELSE _applyFilters(sheet.rows, filters)

\* index of the first row whose Email cell is the email, 0 when there is none
FirstRowWithEmail(rows, email) ==
  IF \E i \in 1..Len(rows) : rows[i].email = email
  THEN CHOOSE i \in 1..Len(rows) :
         /\ rows[i].email = email
         /\ \A j \in 1..(i - 1) : rows[j].email # email
  ELSE 0

updateLeadContactedStatusEveryMatch(sheet, email, contacted) ==
  IF ~sheet.exists \/ FirstRowWithEmail(sheet.rows, email) = 0
  THEN [ok |-> FALSE, sheet |-> sheet]
  ELSE [ok |-> TRUE,
        sheet |-> [sheet EXCEPT !.rows =
                     [i \in 1..Len(sheet.rows) |->
                        IF sheet.rows[i].email = email
                        THEN [sheet.rows[i] EXCEPT !.contacted = contacted]
                        ELSE sheet.rows[i]]]]

\* updateLeadContactedStatus(email, contacted): without a Leads sheet the
\* read of sheet.getDataRange throws and the catch returns false
updateLeadContactedStatus(sheet, email, contacted) ==
  LET i == FirstRowWithEmail(sheet.rows, email) IN
    IF ~sheet.exists \/ i = 0 THEN [ok |-> FALSE, sheet |-> sheet]
    ELSE [ok |-> TRUE, sheet |-> [sheet EXCEPT !.rows[i].contacted = contacted]]

clearLeadsButLastRow(sheet, settings) ==
  IF ~sheet.exists
  THEN [ok |-> FALSE, sheet |-> sheet, settings |-> settings]
  ELSE [ok |-> TRUE,
        sheet |-> [sheet EXCEPT !.rows = IF Len(@) = 0 THEN @ ELSE <<@[Len(@)]>>],
        settings |-> updateSetting(settings, "Total Leads", Str(<<"0">>)).settings]

\* clearLeads(): without a Leads sheet sheet.getLastRow throws before
\* anything is written
clearLeads(sheet, settings) ==
  IF ~sheet.exists
  THEN [ok |-> FALSE, sheet |-> sheet, settings |-> settings]
  ELSE [ok |-> TRUE,
        sheet |-> [sheet EXCEPT !.rows = <<>>],
        settings |-> updateSetting(settings, "Total Leads", Str(<<"0">>)).settings]

----------------------------------------------------------------------------
(* Dashboard statistics (sheetManager.js, dataProcessor.js) *)

\* the size categories getStats and getLeadStatistics can set as keys of
\* stats.byCompanySize
SizeCategories == {"Unknown", "1-10", "11-50", "51-200", "201-500", "500+"}

sizeCategoryStrictBounds(employees) ==
  IF employees = 0 THEN "Unknown"
  ELSE IF employees < 10 THEN "1-10"
  ELSE IF employees < 50 THEN "11-50"
  ELSE IF employees < 200 THEN "51-200"
  ELSE IF employees < 500 THEN "201-500"
  ELSE "500+"

\* sizeCategory of one lead: the if-chain of getLeadStatistics, which
\* getStats (sheetManager.js 509-515) repeats word for word
sizeCategory(employees) ==
  IF employees = 0 THEN "Unknown"
  ELSE IF employees <= 10 THEN "1-10"
  ELSE IF employees <= 50 THEN "11-50"
  ELSE IF employees <= 200 THEN "51-200"
  ELSE IF employees <= 500 THEN "201-500"
  ELSE "500+"

\* An object used as a map ({}): its own members, a function from keys to
\* values.  A key it does not own is looked up on Object.prototype, where
\* 'constructor', 'toString' and 'valueOf' name functions and '__proto__'
\* the prototype object itself.
EmptyObject == [k \in {} |-> Undef]
kConstructor == <<"c","o","n","s","t","r","u","c","t","o","r">>
kToString    == <<"t","o","S","t","r","i","n","g">>
kValueOf     == <<"v","a","l","u","e","O","f">>
kProto       == <<"_","_","p","r","o","t","o","_","_">>
kUnknown     == <<"U","n","k","n","o","w","n">>

\* obj[key]
getMember(obj, key) ==
  IF key \in DOMAIN obj THEN obj[key]
  ELSE IF key \in {kConstructor, kToString, kValueOf}
  THEN [t |-> "function", s |-> <<"function ">> \o key \o <<"() { [native code] }">>,
        n |-> 0]
  ELSE IF key = kProto
  THEN [t |-> "object", s |-> <<"[object Object]">>, n |-> 0]
  ELSE Undef

\* obj[key] = value; the setter of '__proto__' ignores a value that is no
\* object
setMember(obj, key, value) ==
  IF key = kProto THEN obj
  ELSE [k \in DOMAIN obj \cup {key} |-> IF k = key THEN value ELSE obj[k]]

\* (v || 0) + 1: a number is added to, anything else is converted to text
\* and '1' is written after it
OrZeroPlusOne(v) ==
  IF Falsy(v) THEN Num(1)
  ELSE IF v.t = "number" THEN Num(v.n + 1)
  ELSE Str(v.s \o <<"1">>)

\* counts[key] = (counts[key] || 0) + 1 for the keys from position i on
RECURSIVE tallyFrom(_, _, _)
tallyFrom(keys, i, counts) ==
  IF i > Len(keys) THEN counts
  ELSE tallyFrom(keys, i + 1,
         setMember(counts, keys[i], OrZeroPlusOne(getMember(counts, keys[i]))))

\* stats.byTitle after the forEach over leads: lead.title || 'Unknown'
byTitle(leads) ==
  tallyFrom([i \in 1..Len(leads) |->
               IF leads[i].title = <<>> THEN kUnknown ELSE leads[i].title],
            1, EmptyObject)

\* stats.byCompanySize after the forEach over leads: the count under each
\* key, 0 standing for a key that was never set
byCompanySize(leads) ==
  [c \in SizeCategories |->
     Cardinality({i \in 1..Len(leads) : sizeCategory(leads[i].employees) = c})]

\* the statistics of no lead at all
NoStats ==
  [total |-> 0, contacted |-> 0, notContacted |-> 0,
   byTitle |-> EmptyObject,
   byCompanySize |-> [c \in SizeCategories |-> 0]]

\* tallies of the forEach; byIndustry is tallied the way byTitle is, from a
\* cell that no operation of this model writes
tallyStats(leads) ==
  [total |-> Len(leads),
   contacted |-> Cardinality({i \in 1..Len(leads) : leads[i].contacted}),
   notContacted |-> Cardinality({i \in 1..Len(leads) : ~leads[i].contacted}),
   byTitle |-> byTitle(leads),
   byCompanySize |-> byCompanySize(leads)]

\* SheetManager.getStats(): no sheet or no row below the header gives zeros
getStats(sheet) ==
  IF ~sheet.exists \/ getLastRow(sheet) < 2 THEN NoStats
  ELSE tallyStats(sheet.rows)

\* DataProcessor.getLeadStatistics(leads)
getLeadStatistics(leads) ==
  IF Len(leads) = 0 THEN NoStats ELSE tallyStats(leads)

\* getLeadStatistics(leads) of class DataProcessor (apolloApi.js): total,
\* bySector, byTitle, contacted and notContacted; it has no byCompanySize
DataProcessor_getLeadStatistics(leads) ==
  IF Len(leads) = 0 THEN NoStats
  ELSE [tallyStats(leads) EXCEPT !.byCompanySize = NoStats.byCompanySize]

----------------------------------------------------------------------------
(* CSV export (dataProcessor.js, apolloApi.js)                             *)
(*                                                                         *)
(* A CSV text is a sequence of pieces: the characters of the field values  *)
(* one by one, and every fixed text of the code (a header name, 'Yes',     *)
(* 'No', a source name) as one piece.  LF is the piece of a line break.    *)

LF    == "\n"
DoubleQuote == "\""

\* parts.join(sep)
RECURSIVE join(_, _)
join(parts, sep) ==
  IF Len(parts) = 0 THEN <<>>
  ELSE IF Len(parts) = 1 THEN parts[1]
  ELSE parts[1] \o <<sep>> \o join(Tail(parts), sep)

\* s.replace(/"/g, '""')
RECURSIVE escapeQuotes(_)
escapeQuotes(s) ==
  IF s = <<>> THEN <<>>
  ELSE (IF Head(s) = DoubleQuote THEN <<DoubleQuote, DoubleQuote>>
        ELSE <<Head(s)>>)
         \o escapeQuotes(Tail(s))

\* `"${s}"`
quoted(s) == <<DoubleQuote>> \o s \o <<DoubleQuote>>

\* the headers of LeadLib.DataProcessor.prototype.exportToCSV
headers ==
  <<"ID", "Name", "Title", "Company", "Industry", "Employees", "Founded Year",
    "Email", "Phone", "Location", "LinkedIn", "Website", "Description",
    "Contacted", "Last Updated", "Source">>

\* one piece per array element
Pieces(names) == [i \in 1..Len(names) |-> <<names[i]>>]

\* the row of one lead as getLeads returns it: id, industry, foundedYear,
\* phone, location, linkedin, website, description and lastUpdated are
\* absent or empty, and x || '' writes nothing for them
row(lead) ==
  << <<>>,
     quoted(escapeQuotes(lead.name)),
     quoted(escapeQuotes(lead.title)),
     quoted(escapeQuotes(lead.company)),
     quoted(<<>>),
     IntToStr(lead.employees),
     <<>>,
     lead.email,
     <<>>,
     quoted(<<>>),
     <<>>,
     <<>>,
     quoted(<<>>),
     <<IF lead.contacted THEN "Yes" ELSE "No">>,
     <<>>,
     <<lead.source>> >>

\* csvContent after the forEach from lead i on
RECURSIVE csvRowsFrom(_, _)
csvRowsFrom(leads, i) ==
  IF i > Len(leads) THEN <<>>
  ELSE join(row(leads[i]), ",") \o <<LF>> \o csvRowsFrom(leads, i + 1)

\* LeadLib.DataProcessor.prototype.exportToCSV(leads)
exportToCSV(leads) ==
  IF Len(leads) = 0 THEN <<"No leads to export">>
  ELSE join(Pieces(headers), ",") \o <<LF>> \o csvRowsFrom(leads, 1)

\* the headers of DataProcessor.exportToCSV (apolloApi.js)
DataProcessor_headers ==
  <<"Timestamp", "Lead Name", "Title", "Company Name", "Sector", "Employees",
    "Capital", "Year Founded", "Email", "Phone", "Location", "Website",
    "LinkedIn", "Contacted">>

\* lead.lastUpdated.toISOString() is a TypeError unless lastUpdated is a Date
DataProcessor_rowThrows(lead) == lead.lastUpdated.t # "date"

\* the row of one lead: sector and location are undefined in a template
\* literal, capital, phone, website and linkedinUrl are undefined in join
DataProcessor_row(lead) ==
  << toISOString(lead.lastUpdated.n),
     quoted(lead.name),
     quoted(lead.title),
     quoted(lead.company),
     quoted(<<"undefined">>),
     IntToStr(lead.employees),
     <<>>,
     <<>>,
     lead.email,
     <<>>,
     quoted(<<"undefined">>),
     <<>>,
     <<>>,
     <<IF lead.contacted THEN "Yes" ELSE "No">> >>

\* DataProcessor.exportToCSV(leads): whether it threw, csvRows.join('\n')
DataProcessor_exportToCSV(leads) ==
  IF Len(leads) = 0 THEN [threw |-> FALSE, text |-> <<>>]
  ELSE IF \E i \in 1..Len(leads) : DataProcessor_rowThrows(leads[i])
  THEN [threw |-> TRUE, text |-> <<>>]
  ELSE [threw |-> FALSE,
        text |-> join(<<join(Pieces(DataProcessor_headers), ",")>>
                        \o [i \in 1..Len(leads) |->
                              join(DataProcessor_row(leads[i]), ",")],
                      LF)]

----------------------------------------------------------------------------
(* LeadLib convenience functions (sheetManager.js) as steps *)

\* the cleaned leads handed to appendLeads
StoreLead(email, name, employees) ==
  [ name |-> name, title |-> <<"C","E","O">>, company |-> cAcme,
    employees |-> employees, email |-> email, contacted |-> FALSE,
    source |-> "Apollo.io" ]

StoreLeadChoices ==
  { StoreLead(eJohn, <<"C","y">>, 0), StoreLead(eKate, <<"A","l">>, 25) }

StoreBatches == UNION { [1..len -> StoreLeadChoices] : len \in 0..MaxAppend }

StoreEmails == {eJohn, eKate, eNoAt}

GetLeadsFilters ==
  { NoFilters,
    [contacted |-> "true", companySize |-> ""],
    [contacted |-> "any", companySize |-> "11-50"] }

NoLibCall ==
  [op |-> "none", ok |-> FALSE, message |-> "", email |-> <<>>,
   contacted |-> FALSE, count |-> 0, apiFails |-> FALSE, leads |-> <<>>,
   stats |-> NoStats, filters |-> NoFilters, threw |-> FALSE, text |-> <<>>,
   fileName |-> <<>>, hasSuccess |-> TRUE, via |-> "", action |-> ""]

\* LeadLib.initSheets(spreadsheetId)
InitSheets ==
  /\ leadsSheet' = initializeLeadsSheet(leadsSheet)
  /\ settingsSheet' = initializeSettingsSheet(settingsSheet)
  /\ libCall' = [NoLibCall EXCEPT !.op = "initSheets", !.ok = TRUE,
                   !.message = "Sheets initialized successfully"]
  /\ UNCHANGED <<userProps, driveFiles, pipelineVars, cacheVars, keyVars>>

\* LeadLib.appendLeads(spreadsheetId, leads)
AppendLeads(leads) ==
  /\ Len(leadsSheet.rows) + Len(leads) <= MaxRows
  /\ LET r == appendLeads(leadsSheet, settingsSheet, leads, now) IN
       /\ leadsSheet' = r.sheet
       /\ settingsSheet' = r.settings
       /\ libCall' = [NoLibCall EXCEPT !.op = "appendLeads", !.ok = r.ok,
                        !.count = Len(leads)]
  /\ UNCHANGED <<userProps, driveFiles, pipelineVars, cacheVars, keyVars>>

\* LeadLib.getLeads(spreadsheetId, filters)
GetLeads(filters) ==
  /\ libCall' = [NoLibCall EXCEPT !.op = "getLeads", !.ok = TRUE,
                   !.leads = getLeads(leadsSheet, filters)]
  /\ UNCHANGED <<leadsSheet, settingsSheet, userProps, driveFiles, pipelineVars,
                 cacheVars, keyVars>>

\* LeadLib.updateLeadStatus(spreadsheetId, email, contacted)
UpdateLeadStatus(email, contacted) ==
  /\ LET r == updateLeadContactedStatus(leadsSheet, email, contacted) IN
       /\ leadsSheet' = r.sheet
       /\ libCall' = [NoLibCall EXCEPT !.op = "updateLeadStatus", !.ok = r.ok,
                        !.email = email, !.contacted = contacted,
                        !.message = IF r.ok THEN "Lead status updated successfully"
                                    ELSE "Lead not found"]
  /\ UNCHANGED <<settingsSheet, userProps, driveFiles, pipelineVars, cacheVars,
                 keyVars>>

\* manager.updateSetting(settingName, value), as saveSettings calls it
UpdateSetting(settingName, value) ==
  /\ LET r == updateSetting(settingsSheet, settingName, value) IN
       /\ settingsSheet' = r.settings
       /\ libCall' = [NoLibCall EXCEPT !.op = "updateSetting", !.ok = r.ok]
  /\ UNCHANGED <<leadsSheet, userProps, driveFiles, pipelineVars, cacheVars,
                 keyVars>>

\* LeadLib.clearAllLeads(spreadsheetId)
ClearAllLeads ==
  /\ LET r == clearLeads(leadsSheet, settingsSheet) IN
       /\ leadsSheet' = r.sheet
       /\ settingsSheet' = r.settings
       /\ libCall' = [NoLibCall EXCEPT !.op = "clearAllLeads", !.ok = r.ok,
                        !.message = IF r.ok THEN "All leads cleared successfully"
                                    ELSE "Failed to clear leads"]
  /\ UNCHANGED <<userProps, driveFiles, pipelineVars, cacheVars, keyVars>>

\* LeadLib.getStats(spreadsheetId)
GetStats ==
  /\ libCall' = [NoLibCall EXCEPT !.op = "getStats", !.ok = TRUE,
                   !.stats = getStats(leadsSheet)]
  /\ UNCHANGED <<leadsSheet, settingsSheet, userProps, driveFiles, pipelineVars,
                 cacheVars, keyVars>>

\* LeadLib.getLeadStatistics(leads)
GetLeadStatistics(leads) ==
  /\ libCall' = [NoLibCall EXCEPT !.op = "getLeadStatistics", !.ok = TRUE,
                   !.leads = leads, !.stats = getLeadStatistics(leads)]
  /\ UNCHANGED <<leadsSheet, settingsSheet, userProps, driveFiles, pipelineVars,
                 cacheVars, keyVars>>

\* new DataProcessor().getLeadStatistics(leads)
DataProcessorGetLeadStatistics(leads) ==
  /\ libCall' = [NoLibCall EXCEPT !.op = "DataProcessor.getLeadStatistics",
                   !.ok = TRUE, !.leads = leads,
                   !.stats = DataProcessor_getLeadStatistics(leads)]
  /\ UNCHANGED <<leadsSheet, settingsSheet, userProps, driveFiles, pipelineVars,
                 cacheVars, keyVars>>

\* the leads of a getLeads call stamped as cleanLeads stamps its records
Stamped(leads, t) ==
  [i \in 1..Len(leads) |->
     [name |-> leads[i].name, title |-> leads[i].title,
      company |-> leads[i].company, employees |-> leads[i].employees,
      email |-> leads[i].email, contacted |-> leads[i].contacted,
      source |-> leads[i].source, lastUpdated |-> Date(t)]]

Unstamped(leads) ==
  [i \in 1..Len(leads) |->
     [name |-> leads[i].name, title |-> leads[i].title,
      company |-> leads[i].company, employees |-> leads[i].employees,
      email |-> leads[i].email, contacted |-> leads[i].contacted,
      source |-> leads[i].source, lastUpdated |-> Undef]]

\* new LeadLib.DataProcessor().exportToCSV(leads) on the leads of the sheet
LeadLibDataProcessorExportToCSV ==
  /\ LET leads == getLeads(leadsSheet, NoFilters) IN
       libCall' = [NoLibCall EXCEPT !.op = "LeadLib.DataProcessor.exportToCSV",
                     !.ok = TRUE, !.leads = leads, !.text = exportToCSV(leads)]
  /\ UNCHANGED <<leadsSheet, settingsSheet, userProps, driveFiles, pipelineVars,
                 cacheVars, keyVars>>

\* new DataProcessor().exportToCSV(leads) on the leads of the sheet, with
\* lastUpdated a Date or absent
DataProcessorExportToCSV(stamped) ==
  /\ LET leads == IF stamped THEN Stamped(getLeads(leadsSheet, NoFilters), now)
                  ELSE Unstamped(getLeads(leadsSheet, NoFilters))
         r     == DataProcessor_exportToCSV(leads)
     IN libCall' = [NoLibCall EXCEPT !.op = "DataProcessor.exportToCSV",
                      !.ok = ~r.threw, !.leads = leads, !.threw = r.threw,
                      !.text = r.text]
  /\ UNCHANGED <<leadsSheet, settingsSheet, userProps, driveFiles, pipelineVars,
                 cacheVars, keyVars>>

\* the two library files that assign LeadLib.exportToCSV; the one loaded
\* last decides which function the name holds
ExportToCSVFiles == {"dataProcessor.js", "sheetManager.js"}

\* new Date().toISOString().split('T')[0]: the text of the day of the instant
isoDate(t) == <<"D">> \o IntToStr(t \div 86400)

\* `SMB_Leads_${...}.csv`
exportFileName(t) == <<"SMB_Leads_">> \o isoDate(t) \o <<".csv">>

\* LeadLib.exportToCSV(spreadsheetId, params) as exportToCSVApi calls it.
\* loadedLast is the file whose assignment of LeadLib.exportToCSV stands.
\* With function(leads) standing, the spreadsheet id is not an array and
\* the text 'No leads to export' is returned.  With
\* function(spreadsheetId, params) standing, self.exportToCSV(leads) is the
\* function itself: SpreadsheetApp.openById(leads) throws, the inner catch
\* returns {success: false, error}, and that object is what goes to
\* Utilities.newBlob, which rejects it or converts it to a string
\* (blobConverts).
LeadLibExportToCSVStep(base, filters, loadedLast, blobConverts) ==
  LET leads     == getLeads(leadsSheet, filters)
      fileName  == exportFileName(now)
      call      == [base EXCEPT !.op = "exportToCSV", !.filters = filters]
  IN
    /\ UNCHANGED <<leadsSheet, settingsSheet, userProps, pipelineVars,
                   cache, now, lastCall, keyVars>>
    /\ IF loadedLast = "dataProcessor.js" THEN
         /\ libCall' = [call EXCEPT !.hasSuccess = FALSE,
                          !.text = exportToCSV(<<>>)]
         /\ UNCHANGED driveFiles
       ELSE IF Len(leads) = 0 THEN
         /\ libCall' = [call EXCEPT !.ok = FALSE, !.message = "No leads to export"]
         /\ UNCHANGED driveFiles
       ELSE IF blobConverts THEN
         /\ driveFiles' = driveFiles \cup
              {[name |-> fileName, content |-> <<"[object Object]">>]}
         /\ libCall' = [call EXCEPT !.ok = TRUE,
                          !.message = "CSV exported successfully",
                          !.fileName = fileName]
       ELSE
         /\ libCall' = [call EXCEPT !.ok = FALSE]
         /\ UNCHANGED driveFiles

LeadLibExportToCSV(filters, loadedLast, blobConverts) ==
  /\ LeadLibExportToCSVStep(NoLibCall, filters, loadedLast, blobConverts)
  /\ UNCHANGED listCache

\* the members assigned on the LeadLib namespace object (dataProcessor.js,
\* sheetManager.js); class ApolloAPI and class DataProcessor of apolloApi.js
\* are globals of their own and are never assigned on it
LeadLibMembers ==
  {"DataProcessor", "cleanLeads", "getLeadStatistics", "exportToCSV",
   "filterLeads", "SheetManager", "initSheets", "getLeads", "appendLeads",
   "updateLeadStatus", "getSettings", "saveSettings", "getStats",
   "clearAllLeads", "testApolloConnection", "fetchLeads"}

\* ApolloAPI.fetchLeads(filters) on cache c at clock t, resp being what the
\* API answers if called: whether it threw, the batch, the cache afterwards
ApolloAPI_fetchLeads(c, filters, resp, t) ==
  LET cacheKey   == CacheKeyOf[filters]
      cachedData == getCachedLeads(c, cacheKey, t)
      leads      == _processApiResponse(resp.people, t)
  IN
    IF IsCacheHit(cachedData)
    THEN [threw |-> FALSE, leads |-> cachedData.leads, cache |-> c]
    ELSE IF ApiCallThrows(resp)
    THEN [threw |-> TRUE, leads |-> <<>>, cache |-> c]
    ELSE IF resp.hasPeople
    THEN [threw |-> FALSE, leads |-> leads,
          cache |-> cacheLeads(c, leads, cacheKey, t)]
    ELSE [threw |-> FALSE, leads |-> <<>>, cache |-> c]

\* a lead of LeadLib.cleanLeads as appendLeads reads it
AsStoreLead(lead) ==
  [ name |-> lead.name, title |-> lead.title, company |-> lead.company,
    employees |-> lead.employees.n, email |-> lead.email,
    contacted |-> lead.contacted,
    source |-> lead.source ]

ApiKeys == { Undef, Str(<<"k","1">>) }

\* LeadLib.fetchLeads(spreadsheetId, filters, apiKey), resp being what the
\* API answers if called.  'new self.ApolloAPI()' is inside the try block:
\* self.ApolloAPI is undefined, the TypeError is caught and reported.
LeadLibFetchLeadsStep(call, filters, apiKey, resp) ==
  LET fail(msg) == [call EXCEPT !.op = "fetchLeads", !.ok = FALSE,
                      !.message = msg, !.apiFails = ApiCallThrows(resp)]
      r         == ApolloAPI_fetchLeads(cache, filters, resp, now)
      cleanedLeads == cleanLeads(r.leads)
      a         == appendLeads(leadsSheet, settingsSheet,
                               [i \in 1..Len(cleanedLeads) |->
                                  AsStoreLead(cleanedLeads[i])], now)
  IN
    /\ UNCHANGED <<now, lastCall, driveFiles, pipelineVars, keyVars>>
    /\ IF Falsy(apiKey) THEN
         /\ libCall' = fail("Please set your Apollo API key in Settings")
         /\ UNCHANGED <<userProps, cache, leadsSheet, settingsSheet>>
       ELSE
         /\ userProps' = apiKey
         /\ IF "ApolloAPI" \notin LeadLibMembers THEN
              /\ libCall' = fail("Error fetching leads: self.ApolloAPI is not a constructor")
              /\ UNCHANGED <<cache, leadsSheet, settingsSheet>>
            ELSE IF r.threw THEN
              /\ libCall' = fail("Error fetching leads: Failed to fetch leads from Apollo.io")
              /\ UNCHANGED <<cache, leadsSheet, settingsSheet>>
            ELSE IF Len(r.leads) = 0 THEN
              /\ libCall' = fail("No leads found with the specified criteria")
              /\ cache' = r.cache
              /\ UNCHANGED <<leadsSheet, settingsSheet>>
            ELSE IF Len(cleanedLeads) = 0 THEN
              /\ libCall' = fail("No valid leads found after cleaning")
              /\ cache' = r.cache
              /\ UNCHANGED <<leadsSheet, settingsSheet>>
            ELSE
              /\ cache' = r.cache
              /\ leadsSheet' = a.sheet
              /\ settingsSheet' = a.settings
              /\ libCall' = IF a.ok
                            THEN [call EXCEPT !.op = "fetchLeads", !.ok = TRUE,
                                    !.message = "Successfully fetched and added leads",
                                    !.count = Len(cleanedLeads),
                                    !.apiFails = ApiCallThrows(resp)]
                            ELSE fail("Failed to save leads to sheet")

LeadLibFetchLeads(filters, apiKey, resp) ==
  LeadLibFetchLeadsStep(NoLibCall, filters, apiKey, resp) /\ UNCHANGED listCache

----------------------------------------------------------------------------
(* Web API (main.js): doPost and the handlers it routes to.  getSheetId()  *)
(* is the spreadsheet of the model.  LeadLib.getCachedStats,               *)
(* LeadLib.getQuickStats, LeadLib.warmCache and LeadLib.clearCache are     *)
(* not members of LeadLib, so the handlers take their fallback paths.      *)
(* The observation of a request is the object handed to JSON.stringify:    *)
(* hasSuccess tells whether it has a member success, ok is that member.    *)

\* the call record of a request routed by doPost
Post(action) == [NoLibCall EXCEPT !.via = "doPost", !.action = action]

\* cache.remove of a key that is not the key of the list
removeOtherKey(c) ==
  [k \in DOMAIN c |-> IF k = "leads_list" THEN NoEntry ELSE c[k]]

\* cache.remove('leads_full_list')
removeListCache(c) == [c EXCEPT ![ListCacheKey] = NoEntry]

\* the time to live listLeadsApi passes to cache.put
ListCacheSeconds == 600

\* listLeadsApi(params): the leads listed and the cache afterwards.  params
\* is handed to getLeads as its filters.  JSON.stringify and JSON.parse keep
\* every cell a row of this model holds.
listLeadsApi(c, sheet, params, forceRefresh, t) ==
  LET cached == CacheGet(c, ListCacheKey, t) IN
    IF cached.found /\ ~forceRefresh
    THEN [leads |-> cached.value, cache |-> c]
    ELSE LET leads == getLeads(sheet, params) IN
           [leads |-> leads,
            cache |-> CachePut(c, ListCacheKey, leads, ListCacheSeconds, t, leads)]

\* getStatsApi(), which getCachedStatsApi() and getQuickStatsApi() fall back
\* to: the statistics object itself is the result
GetStatsApi(action) ==
  /\ libCall' = [Post(action) EXCEPT !.hasSuccess = FALSE,
                   !.stats = getStats(leadsSheet)]
  /\ UNCHANGED <<cache, listCache, leadsSheet, settingsSheet, userProps,
                 driveFiles>>

\* listLeadsApi(params): {rows, total, page, pageSize}; the first page of
\* ten holds every lead of a sheet of this model
ListLeadsApi(params, forceRefresh) ==
  /\ LET r == listLeadsApi(listCache, leadsSheet, params, forceRefresh, now) IN
       /\ listCache' = r.cache
       /\ libCall' = [Post("listLeads") EXCEPT !.hasSuccess = FALSE,
                        !.filters = params, !.leads = r.leads,
                        !.count = Len(r.leads)]
  /\ UNCHANGED <<cache, leadsSheet, settingsSheet, userProps, driveFiles>>

\* fetchLeadsApi(params)
FetchLeadsApi(params, resp) ==
  IF Falsy(userProps)
  THEN /\ libCall' = [Post("fetchLeads") EXCEPT !.ok = FALSE,
                        !.message = "Please set your Apollo API key in Settings"]
       /\ UNCHANGED <<cache, listCache, leadsSheet, settingsSheet, userProps,
                      driveFiles>>
  ELSE /\ LeadLibFetchLeadsStep(Post("fetchLeads"), params, userProps, resp)
       /\ listCache' = removeListCache(listCache)

\* updateLeadStatusApi(email, contacted)
UpdateLeadStatusApi(email, contacted) ==
  /\ LET r == updateLeadContactedStatus(leadsSheet, email, contacted) IN
       /\ leadsSheet' = r.sheet
       /\ libCall' = [Post("updateLeadStatus") EXCEPT !.ok = r.ok,
                        !.email = email, !.contacted = contacted,
                        !.message = IF r.ok THEN "Lead status updated successfully"
                                    ELSE "Lead not found"]
  /\ listCache' = removeListCache(listCache)
  /\ UNCHANGED <<cache, settingsSheet, userProps, driveFiles>>

\* getSettingsApi(): without a Settings sheet sheet.getDataRange throws
\* inside getSettings and its catch answers
GetSettingsApi ==
  /\ libCall' = [Post("getSettings") EXCEPT !.ok = settingsSheet.exists]
  /\ UNCHANGED <<cache, listCache, leadsSheet, settingsSheet, userProps,
                 driveFiles>>

\* the settings objects of a saveSettings request: a sequence of members
\* <<name, value>>, or no object at all
NoSettingsObject == <<<<"undefined", Undef>>>>
SettingsObjects ==
  { <<>>,
    <<<<"Auto Refresh", Str(<<"T","R","U","E">>)>>>>,
    <<<<"Apollo API Key", Str(<<"k","1">>)>>>>,
    NoSettingsObject }

\* Object.keys(settings).forEach(key => this.updateSetting(key, ...))
RECURSIVE saveSettings(_, _)
saveSettings(sheet, settings) ==
  IF settings = <<>> THEN sheet
  ELSE saveSettings(updateSetting(sheet, settings[1][1], settings[1][2]).settings,
                    Tail(settings))

\* settings['Apollo API Key'], undefined when there is no such member
ApiKeyOf(settings) ==
  IF \E i \in 1..Len(settings) : settings[i][1] = "Apollo API Key"
  THEN settings[CHOOSE i \in 1..Len(settings) :
                  settings[i][1] = "Apollo API Key"][2]
  ELSE Undef

\* saveSettingsApi(settings): without a settings object Object.keys throws
\* inside saveSettings, and reading a member of it throws again in the
\* handler, whose catch answers
SaveSettingsApi(settings) ==
  /\ IF settings = NoSettingsObject
     THEN /\ libCall' = [Post("saveSettings") EXCEPT !.ok = FALSE]
          /\ UNCHANGED <<settingsSheet, userProps>>
     ELSE /\ settingsSheet' = saveSettings(settingsSheet, settings)
          /\ userProps' = IF Falsy(ApiKeyOf(settings)) THEN userProps
                          ELSE ApiKeyOf(settings)
          /\ libCall' = [Post("saveSettings") EXCEPT !.ok = TRUE,
                           !.message = "Settings saved successfully"]
  /\ UNCHANGED <<cache, listCache, leadsSheet, driveFiles>>

\* testApolloConnectionApi(apiKey); FetchFilters holds the test filters
\* {roles: ['CEO'], ...} of LeadLib.testApolloConnection
TestApolloConnectionApi(apiKey, resp) ==
  LET testFilters == CHOOSE f \in FetchFilters : TRUE
      r           == ApolloAPI_fetchLeads(cache, testFilters, resp, now)
  IN
    /\ UNCHANGED <<listCache, leadsSheet, settingsSheet, driveFiles>>
    /\ IF Falsy(apiKey) THEN
         /\ libCall' = [Post("testApolloConnection") EXCEPT !.ok = FALSE,
                          !.message = "API key is required"]
         /\ UNCHANGED <<cache, userProps>>
       ELSE
         /\ userProps' = apiKey
         /\ IF "ApolloAPI" \notin LeadLibMembers \/ r.threw THEN
              /\ libCall' = [Post("testApolloConnection") EXCEPT !.ok = FALSE,
                               !.message = "Connection failed"]
              /\ UNCHANGED cache
            ELSE
              /\ cache' = r.cache
              /\ libCall' = [Post("testApolloConnection") EXCEPT !.ok = TRUE,
                               !.message = "Connection successful",
                               !.count = Len(r.leads)]

\* exportToCSVApi(params)
ExportToCSVApi(filters, loadedLast, blobConverts) ==
  /\ LeadLibExportToCSVStep(Post("exportToCSV"), filters, loadedLast, blobConverts)
  /\ UNCHANGED listCache

\* clearCacheApi(cacheType): the fallback removes the list for 'leads',
\* 'all' and, by cacheType || 'all', for no type given
ClearCacheApi(cacheType) ==
  /\ listCache' = IF cacheType \in {"leads", "all", ""}
                  THEN removeListCache(listCache) ELSE listCache
  /\ libCall' = [Post("clearCache") EXCEPT !.ok = TRUE,
                   !.message = "Cache cleared successfully"]
  /\ UNCHANGED <<cache, leadsSheet, settingsSheet, userProps, driveFiles>>

\* warmCacheApi(): listLeadsApi({page: 1, pageSize: 10}), result dropped
WarmCacheApi ==
  /\ listCache' = listLeadsApi(listCache, leadsSheet, NoFilters, FALSE, now).cache
  /\ libCall' = [Post("warmCache") EXCEPT !.ok = TRUE,
                   !.message = "All caches warmed successfully"]
  /\ UNCHANGED <<cache, leadsSheet, settingsSheet, userProps, driveFiles>>

\* initSheetsApi()
InitSheetsApi ==
  /\ leadsSheet' = initializeLeadsSheet(leadsSheet)
  /\ settingsSheet' = initializeSettingsSheet(settingsSheet)
  /\ libCall' = [Post("initSheets") EXCEPT !.ok = TRUE,
                   !.message = "Sheets initialized successfully"]
  /\ UNCHANGED <<cache, listCache, userProps, driveFiles>>

\* clearAllLeadsApi()
ClearAllLeadsApi ==
  /\ LET r == clearLeads(leadsSheet, settingsSheet) IN
       /\ leadsSheet' = r.sheet
       /\ settingsSheet' = r.settings
       /\ libCall' = [Post("clearAllLeads") EXCEPT !.ok = r.ok,
                        !.message = IF r.ok THEN "All leads cleared successfully"
                                    ELSE "Failed to clear leads"]
  /\ listCache' = removeListCache(listCache)
  /\ UNCHANGED <<cache, userProps, driveFiles>>

\* a request without postData, with a body that is no JSON, or with an
\* action doPost does not know
RejectedRequests == {"No request data provided", "Invalid JSON in request body",
                     "Unknown action"}
RejectRequest(error) ==
  /\ libCall' = [Post("") EXCEPT !.ok = FALSE, !.message = error]
  /\ UNCHANGED <<cache, listCache, leadsSheet, settingsSheet, userProps,
                 driveFiles>>

\* doPost(e): the switch over requestData.action
DoPost ==
  /\ UNCHANGED <<now, lastCall, pipelineVars, keyVars>>
  /\ \/ \E error \in RejectedRequests : RejectRequest(error)
     \/ \E action \in {"getStats", "getQuickStats"} : GetStatsApi(action)
     \/ \E params \in GetLeadsFilters, forceRefresh \in BOOLEAN :
          ListLeadsApi(params, forceRefresh)
     \/ \E params \in FetchFilters, resp \in ApiResponses :
          FetchLeadsApi(params, resp)
     \/ \E email \in StoreEmails, contacted \in BOOLEAN :
          UpdateLeadStatusApi(email, contacted)
     \/ GetSettingsApi
     \/ \E settings \in SettingsObjects : SaveSettingsApi(settings)
     \/ \E apiKey \in ApiKeys, resp \in ApiResponses :
          TestApolloConnectionApi(apiKey, resp)
     \/ \E filters \in GetLeadsFilters, loadedLast \in ExportToCSVFiles,
           blobConverts \in BOOLEAN :
          ExportToCSVApi(filters, loadedLast, blobConverts)
     \/ \E cacheType \in {"leads", "all", "", "stats"} : ClearCacheApi(cacheType)
     \/ WarmCacheApi
     \/ InitSheetsApi
     \/ ClearAllLeadsApi

----------------------------------------------------------------------------
(* Specifications *)

PipelineIdle == rawLeads = <<>> /\ cleaned = NotCleaned
CacheIdle    ==
  /\ cache = [k \in CacheKeys |-> NoEntry] /\ listCache = NoListCache
  /\ now = 0 /\ lastCall = NoCall
KeyIdle      == filterPair = <<>> /\ keyPair = NoKeys
StoreIdle    ==
  /\ leadsSheet = NoSheet /\ settingsSheet = NoSettings
  /\ userProps = Undef /\ driveFiles = {} /\ libCall = NoLibCall

\* cleaning pipeline: any raw batch, cleaned by either implementation
InitClean ==
  /\ \E len \in 0..MaxBatch : \E b \in [1..len -> RawLeadChoices] :
       rawLeads = WithIds(b)
  /\ cleaned = NotCleaned
  /\ CacheIdle /\ KeyIdle /\ StoreIdle
NextClean == LeadLibCleanLeads \/ DataProcessorCleanLeads
SpecClean == InitClean /\ [][NextClean]_vars

\* response cache: fetches, lookups and the passing of time
InitCache == PipelineIdle /\ CacheIdle /\ KeyIdle /\ StoreIdle
NextCache ==
  \/ \E f \in FetchFilters, resp \in ApiResponses : FetchLeads(f, resp)
  \/ \E k \in CacheKeys : GetCachedLeads(k)
  \/ Tick
SpecCache == InitCache /\ [][NextCache]_vars

\* clearing the response cache between fetches, lookups and the passing of
\* time
NextClear ==
  \/ \E f \in FetchFilters, resp \in ApiResponses : FetchLeads(f, resp)
  \/ \E k \in CacheKeys : GetCachedLeads(k)
  \/ ClearCache
  \/ Tick
SpecClear == InitCache /\ [][NextClear]_vars

\* key derivation: any two filter objects
InitKey ==
  /\ filterPair \in FilterObjects \X FilterObjects
  /\ keyPair = NoKeys
  /\ PipelineIdle /\ CacheIdle /\ StoreIdle
NextKey == GenerateCacheKeys
SpecKey == InitKey /\ [][NextKey]_vars

\* storage: the LeadLib calls on a spreadsheet whose sheets may be missing
InitStore ==
  /\ leadsSheet \in {NoSheet, initializeLeadsSheet(NoSheet)}
  /\ settingsSheet \in {NoSettings, initializeSettingsSheet(NoSettings)}
  /\ userProps = Undef /\ driveFiles = {} /\ libCall = NoLibCall
  /\ PipelineIdle /\ CacheIdle /\ KeyIdle
NextStore ==
  \/ InitSheets
  \/ \E leads \in StoreBatches : AppendLeads(leads)
  \/ \E filters \in GetLeadsFilters : GetLeads(filters)
  \/ \E email \in StoreEmails, contacted \in BOOLEAN :
       UpdateLeadStatus(email, contacted)
  \/ \E settingName \in {"Auto Refresh", "No Such Setting"} :
       UpdateSetting(settingName, Str(<<"T","R","U","E">>))
  \/ ClearAllLeads
  \/ \E f \in FetchFilters, apiKey \in ApiKeys, resp \in ApiResponses :
       LeadLibFetchLeads(f, apiKey, resp)
SpecStore == InitStore /\ [][NextStore]_vars

\* a fetch through the library next to fetches made on ApolloAPI directly
NextFetch ==
  \/ \E f \in FetchFilters, resp \in ApiResponses : FetchLeads(f, resp)
  \/ \E f \in FetchFilters, apiKey \in ApiKeys, resp \in ApiResponses :
       LeadLibFetchLeads(f, apiKey, resp)
SpecFetch == InitStore /\ [][NextFetch]_vars

\* statistics: a Leads sheet holding any leads, tallied in place by getStats
\* or read by getLeads and tallied by getLeadStatistics
MaxStatLeads == 2
EmployeeCounts == {0, 1, 10, 11, 50, 51, 200, 201, 500, 501}
StatLeadChoices ==
  { [StoreLead(eJohn, <<"C","y">>, n) EXCEPT !.contacted = c] :
      n \in EmployeeCounts, c \in BOOLEAN }
InitStats ==
  /\ \/ leadsSheet = NoSheet
     \/ \E len \in 0..MaxStatLeads : \E b \in [1..len -> StatLeadChoices] :
          leadsSheet = [exists |-> TRUE, rows |-> sheetData(b)]
  /\ settingsSheet = initializeSettingsSheet(NoSettings)
  /\ userProps = Undef /\ driveFiles = {} /\ libCall = NoLibCall
  /\ PipelineIdle /\ CacheIdle /\ KeyIdle
NextStats ==
  \/ GetStats
  \/ GetLeadStatistics(getLeads(leadsSheet, NoFilters))
SpecStats == InitStats /\ [][NextStats]_vars

\* tallies: a Leads sheet holding leads, contacted or not, of small and
\* unknown company size, whose Title cell is a title, empty or a word that
\* names a member of Object.prototype, tallied by each of the three
\* aggregators
MaxTallyLeads == 2
TallyTitles == {<<"C","E","O">>, <<"O","w","n","e","r">>, <<>>, kConstructor, kProto}
TallyLeadChoices ==
  { [StoreLead(eJohn, <<"C","y">>, n) EXCEPT !.contacted = c, !.title = t] :
      n \in {0, 25}, c \in BOOLEAN, t \in TallyTitles }
InitTally ==
  /\ \/ leadsSheet = NoSheet
     \/ \E len \in 0..MaxTallyLeads : \E b \in [1..len -> TallyLeadChoices] :
          leadsSheet = [exists |-> TRUE, rows |-> sheetData(b)]
  /\ settingsSheet = initializeSettingsSheet(NoSettings)
  /\ userProps = Undef /\ driveFiles = {} /\ libCall = NoLibCall
  /\ PipelineIdle /\ CacheIdle /\ KeyIdle
NextTally ==
  \/ GetStats
  \/ GetLeadStatistics(getLeads(leadsSheet, NoFilters))
  \/ DataProcessorGetLeadStatistics(getLeads(leadsSheet, NoFilters))
SpecTally == InitTally /\ [][NextTally]_vars

\* employees cleaning: batches of valid, distinct leads whose employees
\* member is absent, a number (zero, positive, negative, fractional) or a
\* string (numeric, negative, fractional, with a numeric prefix, not numeric,
\* empty), cleaned by either implementation
MaxEmployeeLeads == 2
eLee == <<"l","@","x",".","c">>
nBo  == <<"b","o">>
EmployeeLeadIdentities == << <<eJohn, nCy>>, <<eKate, nAlB>>, <<eLee, nBo>> >>
RawEmployees ==
  { Undef, Num(0), Num(25), Num(-5), Frac(3, <<"7">>), Frac(-3, <<"7">>),
    Str(<<"2","5">>), Str(<<"-","5">>), Str(<<"3",".","7">>),
    Str(<<"1","2","a","b","c">>), Str(<<"a","b","c">>), Str(<<>>) }
EmployeeLead(i, employees) ==
  LET who == EmployeeLeadIdentities[((i - 1) % Len(EmployeeLeadIdentities)) + 1]
  IN [Lead(Str(who[1]), Str(who[2]), Str(tCeo), Str(cAcme))
        EXCEPT !.employees = employees]
InitEmployees ==
  /\ \E len \in 1..MaxEmployeeLeads : \E e \in [1..len -> RawEmployees] :
       rawLeads = WithIds([i \in 1..len |-> EmployeeLead(i, e[i])])
  /\ cleaned = NotCleaned
  /\ CacheIdle /\ KeyIdle /\ StoreIdle
NextEmployees == LeadLibCleanLeads \/ DataProcessorCleanLeads
SpecEmployees == InitEmployees /\ [][NextEmployees]_vars

\* founded-year cleaning: batches of valid, distinct leads whose founded
\* year (foundedYear for LeadLib, yearFounded for DataProcessor) is absent, a
\* number (below, at and above the bounds, fractional) or a string, cleaned
\* by either implementation in 1970, at the end of 2019, in 2020 or in 2027
MaxYearLeads == 2
YearTimes == {0, 1577836799, 1577836800, 1798761600}
RawYears ==
  { Undef, Num(0), Num(1750), Num(1799), Num(1800), Num(2020), Num(2021),
    Num(2999), Frac(1999, <<"5">>), Str(<<"2","0","2","0">>),
    Str(<<"1","9","9","9",".","5">>), Str(<<"a","b","c">>) }
YearLead(i, year) ==
  [EmployeeLead(i, Undef) EXCEPT !.foundedYear = year, !.yearFounded = year]
InitYears ==
  /\ \E len \in 1..MaxYearLeads : \E y \in [1..len -> RawYears] :
       rawLeads = WithIds([i \in 1..len |-> YearLead(i, y[i])])
  /\ cleaned = NotCleaned
  /\ cache = [k \in CacheKeys |-> NoEntry] /\ listCache = NoListCache
  /\ now \in YearTimes /\ lastCall = NoCall
  /\ KeyIdle /\ StoreIdle
NextYears == LeadLibCleanLeads \/ DataProcessorCleanLeads
SpecYears == InitYears /\ [][NextYears]_vars

\* title cleaning: batches of valid, distinct leads whose title is a casing
\* of 'ceo' or of 'chief executive officer', another table entry or a title
\* without table entry, with and without white space around it, cleaned by
\* either implementation
MaxTitleLeads == 2
tChief ==
  <<"C","h","i","e","f"," ","E","x","e","c","u","t","i","v","e"," ",
    "O","f","f","i","c","e","r">>
RawTitles ==
  { Str(tCeo), Str(<<"C","E","O">>), Str(<<" ","C","e","O"," ">>),
    Str(tChief), Str(toLowerCase(tChief) \o <<" ">>),
    Str(<<"O","W","N","E","R">>),
    Str(<<"V","p">>), Str(<<" ","V","p"," ">>), Str(<<" ">>) }
TitleLead(i, title) == [EmployeeLead(i, Undef) EXCEPT !.title = title]
InitTitles ==
  /\ \E len \in 1..MaxTitleLeads : \E t \in [1..len -> RawTitles] :
       rawLeads = WithIds([i \in 1..len |-> TitleLead(i, t[i])])
  /\ cleaned = NotCleaned
  /\ CacheIdle /\ KeyIdle /\ StoreIdle
NextTitles == LeadLibCleanLeads \/ DataProcessorCleanLeads
SpecTitles == InitTitles /\ [][NextTitles]_vars

\* export: a Leads sheet holding any leads, among them leads with a quote
\* or a line break in a field, exported by either serializer or through
\* LeadLib.exportToCSV(spreadsheetId, params)
MaxExportLeads == 2
ExportLeadChoices ==
  { StoreLead(eJohn, <<"C","y">>, 0),
    [StoreLead(eKate, <<"A","l">>, 25) EXCEPT !.contacted = TRUE],
    StoreLead(eKate, <<"A",DoubleQuote,"l">>, 25),
    StoreLead(eKate, <<"A",LF,"l">>, 25),
    StoreLead(<<"j","@","x",".","c",LF,"k">>, <<"C","y">>, 0) }
InitExport ==
  /\ \/ leadsSheet = NoSheet
     \/ \E len \in 0..MaxExportLeads : \E b \in [1..len -> ExportLeadChoices] :
          leadsSheet = [exists |-> TRUE, rows |-> sheetData(b)]
  /\ settingsSheet = initializeSettingsSheet(NoSettings)
  /\ userProps = Undef /\ driveFiles = {} /\ libCall = NoLibCall
  /\ PipelineIdle /\ CacheIdle /\ KeyIdle
NextExport ==
  \/ LeadLibDataProcessorExportToCSV
  \/ \E stamped \in BOOLEAN : DataProcessorExportToCSV(stamped)
  \/ \E filters \in GetLeadsFilters, loadedLast \in ExportToCSVFiles,
        blobConverts \in BOOLEAN :
       LeadLibExportToCSV(filters, loadedLast, blobConverts)
SpecExport == InitExport /\ [][NextExport]_vars

\* web API: requests to doPost on a spreadsheet whose sheets may be missing
\* and whose Leads sheet may hold leads
MaxApiLeads == 2
InitApi ==
  /\ \/ leadsSheet = NoSheet
     \/ \E len \in 0..MaxApiLeads :
          leadsSheet =
            [exists |-> TRUE,
             rows |-> sheetData([i \in 1..len |-> StoreLead(eJohn, <<"C","y">>, 25)])]
  /\ settingsSheet \in {NoSettings, initializeSettingsSheet(NoSettings)}
  /\ userProps = Undef /\ driveFiles = {} /\ libCall = NoLibCall
  /\ PipelineIdle /\ CacheIdle /\ KeyIdle
NextApi == DoPost
SpecApi == InitApi /\ [][NextApi]_vars

----------------------------------------------------------------------------
(* Properties of the cleaning pipeline.  Element i of the raw batch has    *)
(* id i and both implementations copy the id, so an output record with id  *)
(* i is the record derived from element i.                                 *)

Cleaned   == cleaned.variant # "none" /\ ~cleaned.threw
Out       == cleaned.leads
Positions == 1..Len(rawLeads)
InOutput(i) == \E k \in 1..Len(Out) : Out[k].id = Num(i)

\* element i passes the validation of the implementation that ran: for
\* LeadLib the required-field tests on the raw element (and its cleaning
\* completes), for class DataProcessor _validateLead on the cleaned element
PassesValidation(i) ==
  /\ ~rawLeads[i].isNull
  /\ IF cleaned.variant = "LeadLib"
     THEN isValidLead(rawLeads[i]) /\ ~cleaningThrows(rawLeads[i])
     ELSE _validateLead(_cleanIndividualLead(rawLeads[i], i))

\* the lower-cased email of a raw element that passes validation
LowerEmail(i) == toLowerCase(trim(rawLeads[i].email.s))

\* C1: among the elements that pass validation and share a lower-cased
\* email, exactly one is in the output, the first in input order, and its
\* email is the lower-cased one
C1_FirstOfEachEmailSurvives ==
  Cleaned =>
    \A i \in Positions : PassesValidation(i) =>
      LET group == { j \in Positions :
                       PassesValidation(j) /\ LowerEmail(j) = LowerEmail(i) }
          first == CHOOSE j \in group : \A m \in group : j <= m
      IN /\ { j \in group : InOutput(j) } = {first}
         /\ \A k \in 1..Len(Out) : Out[k].id = Num(first) => Out[k].email = LowerEmail(i)

\* C1 restricted to class DataProcessor, which deduplicates by email only
C1_DataProcessorOnly ==
  cleaned.variant = "DataProcessor" => C1_FirstOfEachEmailSurvives

\* C2: the returned batch holds no two records with the same lower-cased
\* email, and every record in it comes from an element that has an email
\* of the form local@domain.tld and a name (LeadLib: of two or more
\* letters, spaces, hyphens and periods), and, for class DataProcessor, a
\* company and an accepted title
C2_UniqueEmailsAllValidated ==
  Cleaned =>
    /\ \A a, b \in 1..Len(Out) :
         a # b => toLowerCase(Out[a].email) # toLowerCase(Out[b].email)
    /\ \A a \in 1..Len(Out) :
         /\ Out[a].id.t = "number" /\ Out[a].id.n \in Positions
         /\ LET raw == rawLeads[Out[a].id.n] IN
              /\ ~raw.isNull
              /\ raw.email.t = "string" /\ raw.name.t = "string"
              /\ emailRegex(trim(raw.email.s))
              /\ Len(trim(raw.name.s)) >= 1
              /\ cleaned.variant = "LeadLib" =>
                   nameRegex(raw.name.s) /\ Len(raw.name.s) > 1
              /\ cleaned.variant = "DataProcessor" =>
                   /\ Out[a].company # <<>>
                   /\ Out[a].title \in validTitles

\* a batch with two valid elements whose emails differ only in case was
\* cleaned by LeadLib and one of the two is in the output
C2_Witness ==
  /\ cleaned.variant = "LeadLib"
  /\ \E i, j \in Positions :
       /\ i < j /\ PassesValidation(i) /\ PassesValidation(j)
       /\ rawLeads[i].email # rawLeads[j].email
       /\ LowerEmail(i) = LowerEmail(j)
       /\ InOutput(i) /\ ~InOutput(j)

\* the positions the implementation that ran accepts: element i passes
\* validation and no accepted earlier element has its key (LeadLib: its
\* lower-cased email or its lower-cased name; DataProcessor: among the
\* valid elements, its cleaned email)
RECURSIVE AcceptedUpTo(_)
AcceptedUpTo(n) ==
  IF n = 0 THEN {}
  ELSE LET before == AcceptedUpTo(n - 1) IN
    IF /\ PassesValidation(n)
       /\ IF cleaned.variant = "LeadLib"
          THEN \A j \in before :
                 /\ LowerEmail(j) # LowerEmail(n)
                 /\ toLowerCase(rawLeads[j].name.s) # toLowerCase(rawLeads[n].name.s)
          ELSE \A j \in 1..(n - 1) :
                 PassesValidation(j) => LowerEmail(j) # LowerEmail(n)
    THEN before \cup {n}
    ELSE before

\* the elements of a set of numbers in increasing order
RECURSIVE Ascending(_)
Ascending(S) ==
  IF S = {} THEN <<>>
  ELSE LET least == CHOOSE x \in S : \A y \in S : x <= y
       IN <<least>> \o Ascending(S \ {least})

CleanedRecord(i) ==
  IF cleaned.variant = "LeadLib" THEN cleanedLead(rawLeads[i], i)
  ELSE _cleanIndividualLead(rawLeads[i], i)

\* C3: the output is the input restricted to the accepted, unique
\* elements, in input order: its k-th record is the cleaned form of the
\* k-th accepted position
C3_OrderPreservingSubsequence ==
  Cleaned =>
    LET accepted == Ascending(AcceptedUpTo(Len(rawLeads))) IN
      /\ Len(Out) = Len(accepted)
      /\ \A k \in 1..Len(Out) : Out[k] = CleanedRecord(accepted[k])
      /\ \A a, b \in 1..Len(Out) : a < b => Out[a].id.n < Out[b].id.n

\* LeadLib kept the first and the third of three elements and dropped the
\* second
C3_Witness ==
  /\ cleaned.variant = "LeadLib"
  /\ Len(rawLeads) = 3 /\ Len(Out) = 2
  /\ Out[1].id = Num(1) /\ Out[2].id = Num(3)

\* C4: an element whose email or name is missing or empty has no record
\* in the output
C4_MissingEmailOrNameRejected ==
  Cleaned =>
    \A i \in Positions :
      (~rawLeads[i].isNull /\ (Falsy(rawLeads[i].email) \/ Falsy(rawLeads[i].name)))
        => ~InOutput(i)

\* an element without a name, its other fields valid, stood in a batch of
\* which LeadLib accepted another element
C4_Witness ==
  /\ cleaned.variant = "LeadLib"
  /\ Len(Out) >= 1
  /\ \E i \in Positions :
       /\ ~rawLeads[i].isNull /\ Falsy(rawLeads[i].name)
       /\ isValidEmail(rawLeads[i].email)
       /\ \A k \in 1..Len(Out) : LowerEmail(i) # Out[k].email

\* the title the implementation that ran gives element i
NormalizedTitle(i) ==
  IF cleaned.variant = "LeadLib" THEN cleanTitle(rawLeads[i].title)
  ELSE _cleanTitle(rawLeads[i].title)

\* C5: an element whose normalized title is not one of CEO, Owner,
\* Founder, President, Co-Founder has no record in the output
C5_TitleOutsideAllowListExcluded ==
  Cleaned =>
    \A i \in Positions :
      (~rawLeads[i].isNull /\ rawLeads[i].title.t = "string"
         /\ NormalizedTitle(i) \notin validTitles)
        => ~InOutput(i)

\* C5 restricted to class DataProcessor, whose _validateLead tests the title
C5_DataProcessorOnly ==
  cleaned.variant = "DataProcessor" => C5_TitleOutsideAllowListExcluded

\* C6: an element whose company is missing or empty has no record in the
\* output
C6_MissingCompanyRejected ==
  Cleaned =>
    \A i \in Positions :
      (~rawLeads[i].isNull /\ Falsy(rawLeads[i].company)) => ~InOutput(i)

\* C6 restricted to class DataProcessor, whose _validateLead tests the company
C6_DataProcessorOnly ==
  cleaned.variant = "DataProcessor" => C6_MissingCompanyRejected

\* processing the element raises an exception: it is null, or a field the
\* cleaners call a string method on is of another type
Raises(lead) ==
  lead.isNull \/ (cleaned.variant = "LeadLib" /\ cleaningThrows(lead))

NotRaises(lead) == ~Raises(lead)

\* C7: cleanLeads never throws, and what it returns is what it returns
\* for the batch without the elements whose processing raises
C7_ExceptionSkipsOnlyThatElement ==
  cleaned.variant # "none" =>
    /\ ~cleaned.threw
    /\ LET others == SelectSeq(rawLeads, NotRaises) IN
         Out = IF cleaned.variant = "LeadLib" THEN cleanLeads(others)
               ELSE DataProcessor_cleanLeads(others).leads

\* C7 restricted to LeadLib, whose loop body is a try block
C7_LeadLibOnly ==
  cleaned.variant = "LeadLib" => C7_ExceptionSkipsOnlyThatElement

----------------------------------------------------------------------------
(* Properties of the response cache *)

Fetched == lastCall.op = "fetchLeads"
Looked  == lastCall.op = "getCachedLeads"

\* C8 as stated: fetchLeads looks up the key derived from the filters;
\* when the cache holds an entry for it, fetchLeads returns the cached
\* batch and does not call the API; when it holds none, fetchLeads calls
\* the API and, on a 200 answer with a people list, stores the processed
\* batch under the key and returns it
C8_EveryHitSkipsTheApi ==
  Fetched =>
    LET entry == cache[lastCall.key] IN
      /\ lastCall.key = _generateCacheKey(lastCall.filters)
      /\ lastCall.hadEntry =>
           /\ lastCall.calls = 0 /\ ~lastCall.threw
           /\ lastCall.result = parseLeads(entry.value)
      /\ ~lastCall.hadEntry => lastCall.calls = 1
      /\ (lastCall.calls = 1 /\ lastCall.response = "people") =>
           /\ ~lastCall.threw
           /\ entry.present /\ entry.putAt = lastCall.at
           /\ entry.value = stringifyLeads(lastCall.result)

\* C8, amended: a cached batch counts as a hit only when it is not empty;
\* on a hit fetchLeads returns the cached batch and does not call the API;
\* otherwise (no entry, an expired entry, or a cached empty batch) it calls
\* the API once and, on a 200 answer with a people list, stores the
\* processed batch under the key and returns it
C8_NonEmptyHitSkipsTheApi ==
  Fetched =>
    LET entry == cache[lastCall.key]
        hit   == lastCall.hadEntry /\ lastCall.cachedCount > 0
    IN
      /\ lastCall.key = _generateCacheKey(lastCall.filters)
      /\ hit =>
           /\ lastCall.calls = 0 /\ ~lastCall.threw
           /\ lastCall.result = parseLeads(entry.value)
           /\ Len(lastCall.result) = lastCall.cachedCount
      /\ ~hit => lastCall.calls = 1
      /\ (lastCall.calls = 1 /\ lastCall.response = "people") =>
           /\ ~lastCall.threw
           /\ entry.present /\ entry.putAt = lastCall.at
           /\ entry.value = stringifyLeads(lastCall.result)
           /\ getCachedLeads(cache, lastCall.key, lastCall.at).found

\* a fetch found a cached batch of at least one lead, put at an earlier
\* instant, and returned it without calling the API
C8_Witness ==
  /\ Fetched /\ lastCall.hadEntry /\ lastCall.cachedCount > 0
  /\ lastCall.calls = 0
  /\ cache[lastCall.key].putAt < lastCall.at
  /\ Len(lastCall.result) > 0

\* seconds between the last put under the looked-up key and the lookup
Elapsed == lastCall.at - cache[lastCall.key].putAt

\* C9 as stated: a lookup less than 3600 seconds after the put returns the
\* batch that was put; a lookup more than 3600 seconds after it returns
\* absent
C9_GetReturnsTheBatchPut ==
  (Looked /\ cache[lastCall.key].present) =>
    /\ Elapsed < 3600 =>
         lastCall.found /\ lastCall.result = cache[lastCall.key].leads
    /\ Elapsed > 3600 => ~lastCall.found

\* a lead as it reads back from its JSON text: lastUpdated, a Date when
\* the batch was put, is the ISO string of that instant
ReadBack(lead) ==
  [lead EXCEPT !.lastUpdated = Str(toISOString(lead.lastUpdated.n))]

\* C9, amended: a lookup less than 3600 seconds after the put returns the
\* batch that was put as it reads back from its JSON text, that is with
\* every lastUpdated as an ISO string instead of a Date and every other
\* field equal; a lookup more than 3600 seconds after it returns absent
C9_GetReturnsTheBatchReadBack ==
  (Looked /\ cache[lastCall.key].present) =>
    LET put == cache[lastCall.key].leads IN
      /\ Elapsed < 3600 =>
           /\ lastCall.found
           /\ Len(lastCall.result) = Len(put)
           /\ \A k \in 1..Len(put) : lastCall.result[k] = ReadBack(put[k])
      /\ Elapsed > 3600 => ~lastCall.found

\* a lookup 3599 seconds after the put returned a batch of at least one lead
C9_Witness ==
  /\ Looked /\ cache[lastCall.key].present
  /\ Elapsed = 3599
  /\ lastCall.found /\ Len(lastCall.result) > 0

\* a lookup 3601 seconds after the put returned absent
C9_ExpiredWitness ==
  /\ Looked /\ cache[lastCall.key].present
  /\ Elapsed = 3601 /\ ~lastCall.found

\* C29: the call that follows clearCache() finds no cached batch: a
\* getCachedLeads returns null under every key, and a fetchLeads with any
\* filters calls the API
C29_ClearCacheEmptiesEveryKey ==
  [][lastCall.op = "clearCache" =>
       /\ lastCall'.op = "getCachedLeads" => ~lastCall'.found
       /\ lastCall'.op = "fetchLeads" => lastCall'.calls = 1]_vars

----------------------------------------------------------------------------
(* Properties of the cache key *)

Members(filters) == { filters[i] : i \in 1..Len(filters) }

\* C10: two filter objects with the same values for the same names have
\* the same key, in whatever order the names were inserted, and one
\* filter object always has the same key
C10_KeyIgnoresInsertionOrder ==
  keyPair # NoKeys =>
    /\ Members(filterPair[1]) = Members(filterPair[2]) => keyPair[1] = keyPair[2]
    /\ filterPair[1] = filterPair[2] => keyPair[1] = keyPair[2]

\* C10 for equal insertion order: the same members in the same order have
\* the same key, and the key of a filter object is the one computed for it
C10_SameOrderSameKey ==
  keyPair # NoKeys =>
    /\ filterPair[1] = filterPair[2] => keyPair[1] = keyPair[2]
    /\ keyPair[1] = _generateCacheKey(filterPair[1])

----------------------------------------------------------------------------
(* Properties of the API call of a fetch *)

\* C11: within one fetch the API is called at most 3 times; an answer 429
\* is followed by another attempt until 3 attempts were made, so a fetch
\* whose last answer is 429 made 3 attempts and ended with an error; a 200
\* answer ends the fetch with success
C11_RateLimitedCallIsRetried ==
  Fetched =>
    /\ lastCall.calls <= 3
    /\ lastCall.status = 429 => lastCall.calls = 3 /\ lastCall.threw
    /\ lastCall.status = 200 => ~lastCall.threw

\* the fetch as coded: one attempt at most, and any answer other than 200,
\* 429 included, ends it at once with an error
C11_SingleAttempt ==
  Fetched =>
    /\ lastCall.calls <= 1
    /\ (lastCall.calls = 1 /\ lastCall.status # 200) => lastCall.threw
    /\ lastCall.status = 200 => ~lastCall.threw

----------------------------------------------------------------------------
(* Properties of a failing fetch *)

\* the API answers with a status other than 200, or the request throws
ApiFails(resp) == resp.kind = "network" \/ resp.code # 200

LibFetched == libCall.op = "fetchLeads"

----------------------------------------------------------------------------
(* Reachability of the success path of LeadLib.fetchLeads *)

\* 'new self.ApolloAPI()' throws inside the try block of LeadLib.fetchLeads
\* before the API is called, so no call answers success, none reaches the
\* tests of the raw and of the cleaned batch, and none appends a row
LeadLibFetchNeverSucceeds ==
  LibFetched =>
    /\ ~libCall.ok
    /\ libCall.message \notin
         {"No leads found with the specified criteria",
          "No valid leads found after cleaning"}

----------------------------------------------------------------------------

(* Properties of the stored leads *)

\* C13: while there is no Leads sheet, appendLeads of a non-empty batch
\* returns false, LeadLib.fetchLeads returns success = false with a
\* message, and both leave the Leads rows and every setting ('Total Leads'
\* and 'Last Updated' included) as they were
C13_AppendWithoutSheetFails ==
  [][ ~leadsSheet.exists =>
        /\ \A leads \in StoreBatches :
             (AppendLeads(leads) /\ Len(leads) > 0) =>
               /\ ~libCall'.ok
               /\ leadsSheet' = leadsSheet /\ settingsSheet' = settingsSheet
        /\ \A f \in FetchFilters, apiKey \in ApiKeys, resp \in ApiResponses :
             LeadLibFetchLeads(f, apiKey, resp) =>
               /\ ~libCall'.ok /\ libCall'.message # ""
               /\ leadsSheet' = leadsSheet /\ settingsSheet' = settingsSheet
    ]_vars

\* appendLeads was called with a non-empty batch on a spreadsheet that has
\* a Settings sheet and no Leads sheet, and returned false
C13_Witness ==
  /\ libCall.op = "appendLeads" /\ libCall.count > 0 /\ ~libCall.ok
  /\ ~leadsSheet.exists /\ settingsSheet.exists

\* rows of the Leads sheet whose Email cell is the email
RowsWithEmail(email) ==
  { i \in 1..Len(leadsSheet.rows) : leadsSheet.rows[i].email = email }

\* C14: updateLeadContactedStatus(email, contacted) returns true exactly
\* when some row has that email; it then sets the Contacted cell of the
\* first such row to the given value and leaves every other cell of every
\* row as it was; when no row has it, it returns false and changes nothing
C14_UpdateTouchesOneContactedCell ==
  [][ \A email \in StoreEmails, contacted \in BOOLEAN :
        UpdateLeadStatus(email, contacted) =>
          LET matching == RowsWithEmail(email) IN
            /\ libCall'.ok = (matching # {})
            /\ settingsSheet' = settingsSheet
            /\ leadsSheet'.exists = leadsSheet.exists
            /\ Len(leadsSheet'.rows) = Len(leadsSheet.rows)
            /\ matching = {} => leadsSheet' = leadsSheet
            /\ matching # {} =>
                 LET first == CHOOSE i \in matching : \A j \in matching : i <= j IN
                   \A i \in 1..Len(leadsSheet.rows) :
                     leadsSheet'.rows[i] =
                       IF i = first
                       THEN [leadsSheet.rows[i] EXCEPT !.contacted = contacted]
                       ELSE leadsSheet.rows[i]
    ]_vars

\* a status update to TRUE succeeded on a sheet where two rows hold the
\* email: the first is contacted, the second is not
C14_Witness ==
  /\ libCall.op = "updateLeadStatus" /\ libCall.ok /\ libCall.contacted
  /\ \E i, j \in RowsWithEmail(libCall.email) :
       /\ i < j /\ \A k \in RowsWithEmail(libCall.email) : i <= k
       /\ leadsSheet.rows[i].contacted /\ ~leadsSheet.rows[j].contacted

\* row i is still in place: every cell but Contacted is as it was
KeptInPlace(i) ==
  /\ i <= Len(leadsSheet'.rows)
  /\ [leadsSheet'.rows[i] EXCEPT !.contacted = FALSE] =
     [leadsSheet.rows[i] EXCEPT !.contacted = FALSE]

AllRowsKept == \A i \in 1..Len(leadsSheet.rows) : KeptInPlace(i)

\* C15: appendLeads, getLeads, updateLeadContactedStatus and updateSetting
\* keep every stored row in place; clearLeads removes all rows at once (or
\* none, when it fails); so no step lowers the row count except to zero
C15_RowsRemovedOnlyInBulk ==
  [][ /\ \A leads \in StoreBatches : AppendLeads(leads) =>
           /\ AllRowsKept
           /\ \A i \in 1..Len(leadsSheet.rows) :
                leadsSheet'.rows[i] = leadsSheet.rows[i]
      /\ \A filters \in GetLeadsFilters : GetLeads(filters) =>
           leadsSheet' = leadsSheet
      /\ \A email \in StoreEmails, contacted \in BOOLEAN :
           UpdateLeadStatus(email, contacted) =>
             AllRowsKept /\ Len(leadsSheet'.rows) = Len(leadsSheet.rows)
      /\ \A settingName \in {"Auto Refresh", "No Such Setting"} :
           UpdateSetting(settingName, Str(<<"T","R","U","E">>)) =>
             leadsSheet' = leadsSheet
      /\ ClearAllLeads =>
           IF libCall'.ok THEN leadsSheet'.rows = <<>>
           ELSE leadsSheet' = leadsSheet
      /\ Len(leadsSheet'.rows) < Len(leadsSheet.rows) =>
           Len(leadsSheet'.rows) = 0
    ]_vars

\* clearLeads succeeded and left no row on a sheet to which leads had been
\* appended since it was initialized
C15_Witness ==
  /\ libCall.op = "clearAllLeads" /\ libCall.ok
  /\ leadsSheet.exists /\ leadsSheet.rows = <<>>
  /\ settingsSheet.exists
  /\ settingsSheet.values["Last Updated"] # Str(<<>>)

\* the number in a cell of the Settings sheet: a cell written as text that
\* is a number holds that number
CellNumber(v) == IF v.t = "string" THEN parseIntStr(v.s).num.n ELSE v.n

TotalLeads == settingsSheet.values["Total Leads"]

\* C25: on a spreadsheet holding both sheets, after any initSheets,
\* appendLeads and clearLeads the setting 'Total Leads' is the number of
\* lead rows in the Leads sheet
C25_TotalLeadsIsTheRowCount ==
  (leadsSheet.exists /\ settingsSheet.exists) =>
    /\ TotalLeads.t = "number" \/ ~parseIntStr(TotalLeads.s).nan
    /\ CellNumber(TotalLeads) = Len(leadsSheet.rows)

\* leads were appended below rows the sheet already held
C25_Witness ==
  /\ leadsSheet.exists /\ settingsSheet.exists
  /\ libCall.op = "appendLeads" /\ libCall.ok
  /\ libCall.count > 0 /\ Len(leadsSheet.rows) > libCall.count
  /\ TotalLeads = Num(Len(leadsSheet.rows))

----------------------------------------------------------------------------
(* Properties of the dashboard statistics *)

\* the bucket the size ranges assign to an employee count
ClaimedBucket(n) ==
  CASE n = 0         -> "Unknown"
    [] n \in 1..10    -> "1-10"
    [] n \in 11..50   -> "11-50"
    [] n \in 51..200  -> "51-200"
    [] n \in 201..500 -> "201-500"
    [] n > 500        -> "500+"

\* the leads an aggregator call has tallied
Tallied ==
  IF libCall.op = "getStats" THEN leadsSheet.rows ELSE libCall.leads

RECURSIVE SumOver(_, _)
SumOver(f, S) ==
  IF S = {} THEN 0
  ELSE LET x == CHOOSE y \in S : TRUE IN f[x] + SumOver(f, S \ {x})

\* C16: both statistics aggregators count every lead in exactly one size
\* bucket, the one its employee count falls in: 0 is "Unknown", 1..10 is
\* "1-10", 11..50 is "11-50", 51..200 is "51-200", 201..500 is "201-500"
\* and anything above 500 is "500+"
C16_EveryCountInItsOneBucket ==
  libCall.op \in {"getStats", "getLeadStatistics"} =>
    /\ \A c \in SizeCategories :
         libCall.stats.byCompanySize[c] =
           Cardinality({i \in 1..Len(Tallied) :
                          ClaimedBucket(Tallied[i].employees) = c})
    /\ SumOver(libCall.stats.byCompanySize, SizeCategories) = Len(Tallied)

\* an aggregator has tallied leads on either side of a bucket boundary
C16_Witness ==
  /\ libCall.op \in {"getStats", "getLeadStatistics"}
  /\ Len(Tallied) = 2
  /\ Tallied[1].employees = 10 /\ Tallied[2].employees = 11
  /\ libCall.stats.byCompanySize["1-10"] = 1
  /\ libCall.stats.byCompanySize["11-50"] = 1

\* every member of a grouping map is a count and the counts add up to total
SumsTo(counts, total) ==
  /\ \A k \in DOMAIN counts : counts[k].t = "number" /\ counts[k].s = <<>>
  /\ SumOver([k \in DOMAIN counts |-> counts[k].n], DOMAIN counts) = total

StatisticsAddUp ==
  LET stats == libCall.stats IN
    /\ stats.contacted + stats.notContacted = stats.total
    /\ SumsTo(stats.byTitle, stats.total)
    /\ libCall.op # "DataProcessor.getLeadStatistics" =>
         SumOver(stats.byCompanySize, SizeCategories) = stats.total

Aggregated ==
  libCall.op \in {"getStats", "getLeadStatistics",
                  "DataProcessor.getLeadStatistics"}

\* C30: in the statistics of every batch of leads and of every stored sheet,
\* contacted + notContacted is total and the counts of each grouping map
\* (by title, by company size) add up to total
C30_CountsAddUpToTotal == Aggregated => StatisticsAddUp

\* the same of the leads whose title does not name a member of
\* Object.prototype
C30_HoldsForOwnKeys ==
  (Aggregated
     /\ \A i \in 1..Len(leadsSheet.rows) :
          leadsSheet.rows[i].title \notin {kConstructor, kToString, kValueOf, kProto})
    => StatisticsAddUp

----------------------------------------------------------------------------
(* Properties of the company-size filter *)

SizeFilter(label) == [contacted |-> "any", companySize |-> label]

\* C26: getLeads filtered by a size label returns exactly the stored leads
\* that getStats counts under that label: as many as the statistics show,
\* each with an employee count of that label
C26_SizeFilterReturnsTheCountedLeads ==
  libCall.op = "getStats" =>
    \A label \in SizeCategories :
      LET listed == getLeads(leadsSheet, SizeFilter(label)) IN
        /\ Len(listed) = libCall.stats.byCompanySize[label]
        /\ \A i \in 1..Len(listed) : sizeCategory(listed[i].employees) = label

\* the same of the labels both functions know for the counts they agree on
C26_HoldsFromOneToFiveHundred ==
  (libCall.op = "getStats"
     /\ \A i \in 1..Len(leadsSheet.rows) :
          leadsSheet.rows[i].employees \in 1..500) =>
    \A label \in SizeCategories :
      LET listed == getLeads(leadsSheet, SizeFilter(label)) IN
        /\ Len(listed) = libCall.stats.byCompanySize[label]
        /\ \A i \in 1..Len(listed) : sizeCategory(listed[i].employees) = label

----------------------------------------------------------------------------

(* Properties of the employees field *)

IsNonNegativeInteger(v) == v.t = "number" /\ v.s = <<>> /\ v.n >= 0

\* the raw values that are absent or hold no number
UnparseableEmployees == { Undef, Str(<<"a","b","c">>), Str(<<>>) }

EmployeesCleaned(variants) ==
  (Cleaned /\ cleaned.variant \in variants) =>
    \A i \in 1..Len(Out) :
      /\ IsNonNegativeInteger(Out[i].employees)
      /\ rawLeads[Out[i].id.n].employees \in UnparseableEmployees =>
           Out[i].employees = Num(0)

\* C20: whatever the raw employees value of a lead is (absent, a number, a
\* numeric or non-numeric string, negative, fractional), the employees field
\* of its cleaned record is a non-negative integer, and it is 0 when the raw
\* value is absent or unparseable
C20_EmployeesIsNonNegativeInteger ==
  EmployeesCleaned({"LeadLib", "DataProcessor"})

\* the same of the records LeadLib.cleanLeads alone produces
C20_LeadLibEmployeesIsNonNegativeInteger == EmployeesCleaned({"LeadLib"})

----------------------------------------------------------------------------
(* Properties of the founded year *)

\* '' of LeadLib.DataProcessor, null of DataProcessor
IsAbsent(v) == v = Str(<<>>) \/ v = Null

CleanedYear(lead) ==
  IF cleaned.variant = "LeadLib" THEN lead.foundedYear ELSE lead.yearFounded

FoundedYearCleaned(variants) ==
  (Cleaned /\ cleaned.variant \in variants) =>
    \A i \in 1..Len(Out) :
      LET y   == CleanedYear(Out[i])
          raw == rawLeads[Out[i].id.n].foundedYear
      IN /\ \/ IsAbsent(y)
            \/ /\ y.t = "number" /\ y.s = <<>>
               /\ 1800 <= y.n /\ y.n <= getFullYear(now)
         /\ raw \in {Num(1750), Num(2999)} => IsAbsent(y)
         /\ (raw = Num(2020) /\ getFullYear(now) >= 2020) => y = Num(2020)

\* C21: whatever the raw founded year of a lead is, the founded year of its
\* cleaned record is absent or an integer from 1800 to the current year;
\* 1750 and 2999 clean to absent, and 2020 cleans to 2020 from the year 2020
\* on
C21_FoundedYearAbsentOrInRange ==
  FoundedYearCleaned({"LeadLib", "DataProcessor"})

\* the same of the records LeadLib.cleanLeads alone produces
C21_LeadLibFoundedYearAbsentOrInRange == FoundedYearCleaned({"LeadLib"})

----------------------------------------------------------------------------

(* Properties of the title *)

\* the canonicalization table of the implementation that ran
TitleTable == IF cleaned.variant = "LeadLib" THEN titleMappings ELSE titleMap

HasEntry(table, key) == \E i \in 1..Len(table) : table[i][1] = key

CeoKeys ==
  { <<"c","e","o">>,
    <<"c","h","i","e","f"," ","e","x","e","c","u","t","i","v","e"," ",
      "o","f","f","i","c","e","r">> }

TitleNormalized(variants) ==
  (Cleaned /\ cleaned.variant \in variants) =>
    \A k \in 1..Len(Out) :
      LET raw == rawLeads[Out[k].id.n].title
          key == toLowerCase(trim(raw.s))
      IN raw.t = "string" =>
           /\ key \in CeoKeys => Out[k].title = <<"C","E","O">>
           /\ ~HasEntry(TitleTable, key) => Out[k].title = trim(raw.s)

\* C22: a title that is 'ceo' or 'chief executive officer' in any casing,
\* with or without white space around it, is normalized to 'CEO', and a
\* title without entry in the table is returned trimmed, its casing kept
C22_TitleCanonicalOrTrimmedOriginal ==
  TitleNormalized({"LeadLib", "DataProcessor"})

\* the same of the records class DataProcessor alone produces
C22_DataProcessorTitleCanonical == TitleNormalized({"DataProcessor"})

----------------------------------------------------------------------------

(* Properties of the CSV export *)

\* the lines of a text; a line break at the very end ends the last line
RECURSIVE TextLines(_)
TextLines(text) ==
  IF \E i \in 1..Len(text) : text[i] = LF
  THEN LET i == CHOOSE k \in 1..Len(text) :
                  text[k] = LF /\ \A j \in 1..(k - 1) : text[j] # LF
       IN <<SubSeq(text, 1, i - 1)>>
            \o (IF i = Len(text) THEN <<>>
                ELSE TextLines(SubSeq(text, i + 1, Len(text))))
  ELSE <<text>>

Serialized ==
  libCall.op \in {"LeadLib.DataProcessor.exportToCSV", "DataProcessor.exportToCSV"}

HeaderRow ==
  join(Pieces(IF libCall.op = "DataProcessor.exportToCSV"
              THEN DataProcessor_headers ELSE headers), ",")

\* C17: for every non-empty batch of N records, whatever their field values,
\* exportToCSV returns a text whose first line is the fixed header row and
\* which has exactly N + 1 lines
C17_HeaderThenOneLinePerRecord ==
  (Serialized /\ Len(libCall.leads) > 0) =>
    /\ ~libCall.threw
    /\ TextLines(libCall.text)[1] = HeaderRow
    /\ Len(TextLines(libCall.text)) = Len(libCall.leads) + 1

HasLineBreak(lead) ==
  \E f \in {"name", "title", "company", "email"} :
    \E i \in 1..Len(lead[f]) : lead[f][i] = LF

\* the same of batches none of whose records holds a line break and all of
\* whose records carry a Date where the serializer reads one
C17_HoldsWithoutLineBreaks ==
  (/\ Serialized /\ Len(libCall.leads) > 0
   /\ \A i \in 1..Len(libCall.leads) :
        /\ ~HasLineBreak(libCall.leads[i])
        /\ libCall.op = "DataProcessor.exportToCSV" =>
             libCall.leads[i].lastUpdated.t = "date") =>
    /\ ~libCall.threw
    /\ TextLines(libCall.text)[1] = HeaderRow
    /\ Len(TextLines(libCall.text)) = Len(libCall.leads) + 1

\* the leads the export filters select
Matching == getLeads(leadsSheet, libCall.filters)

\* C18: when the Leads sheet holds at least one lead matching the export
\* filters, LeadLib.exportToCSV(spreadsheetId, params) serializes those
\* leads, writes the text to a file named SMB_Leads_<ISO-date>.csv and
\* returns success = true with that file name
C18_ExportWritesTheCsvFile ==
  (libCall.op = "exportToCSV" /\ Len(Matching) > 0) =>
    /\ libCall.hasSuccess /\ libCall.ok
    /\ libCall.fileName = exportFileName(now)
    /\ [name |-> libCall.fileName, content |-> exportToCSV(Matching)]
         \in driveFiles

----------------------------------------------------------------------------
(* Properties of the web API *)

\* C19: whatever the action and the state of the sheets and caches, the
\* JSON object doPost returns carries a boolean member success
C19_EveryResponseCarriesSuccess ==
  libCall.via = "doPost" => libCall.hasSuccess /\ libCall.ok \in BOOLEAN

\* the same of the requests other than the statistics, the listing and the
\* export
C19_OtherResponsesCarrySuccess ==
  (/\ libCall.via = "doPost"
   /\ libCall.action \notin {"getStats", "getQuickStats", "listLeads",
                             "exportToCSV"}) =>
    libCall.hasSuccess /\ libCall.ok \in BOOLEAN

\* the request of a step is a fetchLeads with an API key stored, an
\* updateLeadStatus or a clearAllLeads
ChangesLeads(call, props) ==
  \/ call.action \in {"updateLeadStatus", "clearAllLeads"}
  \/ call.action = "fetchLeads" /\ ~Falsy(props)

\* C23: when fetchLeadsApi with an API key stored, updateLeadStatusApi or
\* clearAllLeadsApi returns, the cache holds no 'leads_full_list' entry, and
\* a listLeadsApi call that comes next returns the leads read from the Leads
\* sheet
C23_ChangeRemovesTheListEntry ==
  [][/\ ChangesLeads(libCall', userProps) =>
          ~CacheGet(listCache', ListCacheKey, now').found
     /\ (~CacheGet(listCache, ListCacheKey, now).found
           /\ libCall'.action = "listLeads") =>
          libCall'.leads = getLeads(leadsSheet', libCall'.filters)]_vars

\* a lead was marked while the list was cached, and the entry is gone
C23_Witness ==
  /\ libCall.action = "updateLeadStatus" /\ libCall.ok
  /\ Len(leadsSheet.rows) > 0
  /\ ~CacheGet(listCache, ListCacheKey, now).found

\* what the same listLeadsApi call answers with forceRefresh set
Refreshed ==
  listLeadsApi(listCache, leadsSheet, libCall.filters, TRUE, now).leads

\* C24: after any requests, within the lifetime of the list entry, the rows
\* and the total a listLeadsApi call returns are those the same call returns
\* with forceRefresh set
C24_CachedListEqualsRefreshedList ==
  libCall.action = "listLeads" =>
    /\ libCall.leads = Refreshed
    /\ libCall.count = Len(Refreshed)

\* C28: a testApolloConnectionApi call, whether the connection test
\* succeeded or failed, leaves the stored APOLLO_API_KEY user property with
\* the value it had before the call
C28_ConnectionTestRestoresTheKey ==
  [][libCall'.action = "testApolloConnection" => userProps' = userProps]_vars

\* the same of the calls made without an API key, which return at once
C28_TestWithoutKeyKeepsTheKey ==
  [][(libCall'.action = "testApolloConnection"
        /\ libCall'.message = "API key is required") =>
       userProps' = userProps]_vars

====
